---- MODULE Spec2Model ----
(***************************************************************************)
(* State-machine model of the menu ingestion pipeline of NLWeb-AskBucky:   *)
(*   - the Resumable Retry Orchestrator (code/python/robust_load_today.py), *)
(*     specification OrchSpec;                                             *)
(*   - the Vector Sync Loader (code/python/load_today_to_qdrant.py) as     *)
(*     started by the daily job (code/python/tasks.py), specification      *)
(*     LoaderSpec.                                                         *)
(* Each specification leaves the other component's variables unchanged.    *)
(***************************************************************************)
EXTENDS Integers, Sequences, FiniteSets, Bags, TLC

(***************************************************************************)
(* Bounds of the model.                                                     *)
(***************************************************************************)
\* largest number of files the data directory holds for one date
MaxFiles == 2
\* number of Orchestrator processes started one after the other
MaxRuns == 2

(***************************************************************************)
(* Program constants.                                                       *)
(***************************************************************************)
\* load_single_file(self, file_path, retries=3)
retries == 3
\* time.sleep(5) after a non-zero result or another exception
ErrorBackoff == 5
\* time.sleep(10) after subprocess.TimeoutExpired
TimeoutBackoff == 10

(***************************************************************************)
(*                 THE RESUMABLE RETRY ORCHESTRATOR                         *)
(***************************************************************************)
VARIABLES
    data_dir,          \* date -> number of "*<date>.jsonld" files in data_dir
    loading_state,     \* content of loading_state.json, NoState when absent
    date,              \* self.date
    successful_files,  \* self.successful_files
    failed_files,      \* self.failed_files
    total_files,       \* self.total_files
    opc,               \* position of the Orchestrator process
    files,             \* local `files` of load_all_files
    i,                 \* enumerate index of the file being processed (1-based)
    attempt,           \* loop variable of load_single_file
    invocations,       \* file -> subprocess.run calls made for it by this process
    failures,          \* file -> how many of these calls did not end in success
    delay,             \* argument of the time.sleep in progress (0: none)
    outcome,           \* how the latest subprocess.run call ended
    interrupted_at,    \* position at which the try block of main was left
    status,            \* local `status` of load_all_files
    exit_code,         \* exit code of the process, -1 while it runs
    resumed,           \* load_state() returned True and the operator answered y
    runs               \* processes started so far

orchVars == <<data_dir, loading_state, date, successful_files, failed_files,
              total_files, opc, files, i, attempt, invocations, failures,
              delay, outcome, interrupted_at, status, exit_code, resumed, runs>>

\* the state of the Vector Sync Loader and of the vector service
VARIABLES
    jsonld_root,    \* the files under JSONLD_DIR
    coll_exists,    \* the collection COLL exists in the vector service
    indexes,        \* payload fields of COLL that have a keyword index
    points,         \* the points of COLL: a bag of <<sitetag, doc_id>>
    lpc,            \* Loader process -> its position in main
    today,          \* Loader process -> args.today
    yesterday,      \* Loader process -> args.yesterday
    run_files,      \* Loader process -> its local `files`
    idx,            \* Loader process -> position of `fp` in `files`
    pts,            \* Loader process -> its staged `pts` (the doc_id of each)
    log_delete,     \* Loader process -> what step 1) printed: deleted / warn
    created,        \* Loader process -> points it has upserted so far
    retired,        \* Loader process -> points its delete has removed
    prior,          \* Loader process -> the run before it, if for the same date
    embed_failed,   \* Loader process -> files whose embedding call failed
    last_done,      \* target date of the latest finished run if it exited 0
    last_clean,     \* that run had no failed embedding call
    last_today,     \* the latest target date a run was started for
    retire_missed,  \* some delete failed, or a run skipped a calendar day
    log_loop,       \* Loader process -> how its latest loop iteration ended
    env             \* the connection parameters set (non-empty) in os.environ

loaderVars == <<jsonld_root, coll_exists, indexes, points, lpc, today,
                yesterday, run_files, idx, pts, log_delete, created,
                retired, prior, embed_failed, last_done, last_clean, last_today,
                retire_missed, log_loop, env>>

\* the upsert loop of the Loader over a long list of files, the files and the
\* staged points reduced to their numbers
VARIABLES
    b_files,     \* len(files)
    b_idx,       \* position of `fp` in `files`
    b_pts,       \* len(pts)
    b_pc,        \* position in main: loop / flush / done / aborted
    b_staged,    \* pts.append calls made so far
    b_upserted,  \* points carried by the qd.upsert calls that returned
    b_largest    \* the largest number of points one qd.upsert call carried

batchVars == <<b_files, b_idx, b_pts, b_pc, b_staged, b_upserted, b_largest>>

\* the state of the Fetcher (pyscripts/fetch_menu.py)
VARIABLES
    raw_folder,  \* the files in the week's folder under RAW_ROOT
    f_pc,        \* (slug, meal) -> position of its fetch coroutine
    f_log,       \* (slug, meal) -> the line its fetch coroutine printed
    f_main,      \* position of main: gather / done / crashed
    f_written,   \* the files this run has written
    f_seen       \* (slug, meal) -> what its response was (status, menu, entity)

fetchVars == <<raw_folder, f_pc, f_log, f_main, f_written, f_seen>>

\* the state of the Retention Sweeper (automation/cleanup_jsonld_week.py)
VARIABLES
    store,      \* the files under JSONLD_DIR, at any depth
    s_exists,   \* jsonld_dir.exists()
    s_pc,       \* position of main: start / rglob / unlink / done
    s_today,    \* date.today()
    week,       \* the list `week`
    s_day,      \* position of `day` in `week`
    s_pending,  \* the paths the rglob of this day has still to yield
    deleted,    \* the counter `deleted`
    s_before,   \* the files under JSONLD_DIR when main started
    s_failed    \* the paths whose unlink raised

sweepVars == <<store, s_exists, s_pc, s_today, week, s_day, s_pending,
               deleted, s_before, s_failed>>

\* the state of the weekly job (tasks.py weekly) over the calendar
VARIABLES
    now,        \* the current day (a day number, as in the Sweeper)
    w_pc,       \* position of the job: idle / fetch / canon / cleanup
    w_exit,     \* exit code of the latest job, -1 before the first
    w_stages,   \* the stages of the latest job that exited with code 0
    w_ran,      \* the job has run in the calendar week of `now`
    w_missed    \* some calendar week has passed without a run of the job

weeklyVars == <<now, w_pc, w_exit, w_stages, w_ran, w_missed>>

\* the state of transform_menu (nutrislice_to_jsonld.py) within one day
VARIABLES
    c_pc,       \* position: section (at the loop over sections) / items /
                \* appended (the document at hand has been put in outputs)
    c_section,  \* section_name of the section at hand
    c_items,    \* hasMenuItem of the document at hand
    c_n,        \* number of items of the section taken so far
    c_skips     \* why items of the section at hand were left out

canonVars == <<c_pc, c_section, c_items, c_n, c_skips>>

\* the state of main (nutrislice_to_jsonld.py) over the raw week
VARIABLES
    j_raw,      \* the documents transform_menu returns for the raw files of
                \* the week, in the order main meets them
    j_store,    \* JSONLD_DIR: the files, each with a name and a text
    j_pc,       \* position of main: idle / run
    j_i,        \* index in j_raw of the next document to write
    j_runs,     \* number of runs of main that have ended
    j_first     \* JSONLD_DIR as the first run left it

jsonldVars == <<j_raw, j_store, j_pc, j_i, j_runs, j_first>>

\* the serving weight of one item (transform_menu, nutrislice_to_jsonld.py)
VARIABLES
    sw_size,    \* serving_size_info of the item at hand
    sw_built,   \* the MenuItem of the item has been built
    sw_out      \* servingWeight of its MenuItem: <<>> when the field is omitted

servingVars == <<sw_size, sw_built, sw_out>>

\* the state of the daily job (tasks.py daily) over the calendar
VARIABLES
    d_now,      \* the current day in LOCAL_TZ (a day number)
    d_env,      \* the required variables that are set
    d_pc,       \* position of the job: idle / run
    d_cmds,     \* the commands the latest job has passed to run, in order
    d_sitetags, \* SITETAG_TODAY and SITETAG_YESTERDAY as the job set them
    d_exit      \* exit code of the latest job, -1 before the first has ended

dailyVars == <<d_now, d_env, d_pc, d_cmds, d_sitetags, d_exit>>

\* the state of one request passing through analytics_middleware
VARIABLES
    mw_request,  \* the request: method and path
    mw_handler,  \* what the downstream handler does with it
    mw_slow,     \* the request takes more than 1000 ms
    mw_pc,       \* position in analytics_middleware
    mw_pending,  \* the response to return or the exception in flight
    mw_events,   \* names of the analytics events logged, in order
    mw_warned    \* the "Slow request" warning was logged

middlewareVars == <<mw_request, mw_handler, mw_slow, mw_pc, mw_pending,
                    mw_events, mw_warned>>

\* the state of two Loader runs for one date, the first of which aborts
VARIABLES
    r_files,   \* number of canonical files of the date: files 1..r_files
    r_twin,    \* file 2 has the stem of file 1 (a/x_<d>.jsonld, b/x_<d>.json)
    r_run,     \* 1: the run that aborts; 2: the run that follows it
    r_idx,     \* the file the loop is at
    r_pts,     \* the files whose points are staged in pts
    r_points,  \* doc_id -> number of points tagged menus_<today> with it
    r_pc       \* position of the run: loop / flush / aborted / done

resumeVars == <<r_files, r_twin, r_run, r_idx, r_pts, r_points, r_pc>>

\* the state of one (entity, meal) pair on its way through the file names
VARIABLES
    n_slug,     \* the entity slug of DINING_HALL_SLUGS, a text of tokens
    n_meal,     \* the meal type of MEAL_TYPES, a text of tokens
    n_section,  \* display name of the section the Canonicalizer writes
    n_date,     \* date of the day of that section
    n_pc,       \* fetch / canon / load / loaded
    n_raw,      \* name of the raw file the Fetcher wrote
    n_hall,     \* hall_slug and meal_type as the Canonicalizer took them
    n_canon,    \* name of the canonical file the Canonicalizer wrote
    n_payload   \* site and meal of the payload the Loader built

namesVars == <<n_slug, n_meal, n_section, n_date, n_pc, n_raw, n_hall, n_canon,
               n_payload>>

\* the week start of one date as the three weekly programs compute it
VARIABLES
    ws_d,        \* the date (a day number): date.today() of the three programs
    ws_fetcher,  \* `sunday` of fetch_menu.py, NotComputed before it is set
    ws_canon,    \* last_sunday(date.today()) of nutrislice_to_jsonld.py
    ws_sweeper,  \* sunday_of(today) of cleanup_jsonld_week.py
    ws_window    \* `week` of cleanup_jsonld_week.py, <<>> before it is set

weekStartVars == <<ws_d, ws_fetcher, ws_canon, ws_sweeper, ws_window>>

\* the analytics cookies of one browser (analytics.py, get_or_set_ids)
VARIABLES
    se_now,      \* int(time.time()) of the last request, in seconds
    se_n,        \* the number of requests served
    se_uuids,    \* the number of uuid4 user ids made
    se_jar_uid,  \* the ab_uid cookie the last response set, <<>> if none
    se_jar_sid,  \* the ab_sid cookie the last response set, <<>> if none
    se_carried,  \* what the last request carried as cookies
    se_gap,      \* the seconds between the last request and the one before
    se_uid,      \* the user id the last call returned
    se_sid,      \* the session id the last call returned
    se_prev_sid  \* the session id the call before returned

sessionVars == <<se_now, se_n, se_uuids, se_jar_uid, se_jar_sid, se_carried,
    se_gap, se_uid, se_sid, se_prev_sid>>

vars == <<sessionVars, weekStartVars, namesVars, resumeVars, middlewareVars, dailyVars, servingVars, jsonldVars, orchVars, loaderVars, batchVars, fetchVars, sweepVars, weeklyVars,
          canonVars>>
notCanon == <<sessionVars, weekStartVars, namesVars, resumeVars, middlewareVars, dailyVars, servingVars, jsonldVars, orchVars, loaderVars, batchVars, fetchVars, sweepVars, weeklyVars>>
notJsonld == <<sessionVars, weekStartVars, namesVars, resumeVars, middlewareVars, dailyVars, servingVars, orchVars, loaderVars, batchVars, fetchVars, sweepVars,
    weeklyVars, canonVars>>
notServing == <<sessionVars, weekStartVars, namesVars, resumeVars, middlewareVars, dailyVars, orchVars, loaderVars, batchVars, fetchVars, sweepVars,
    weeklyVars, canonVars, jsonldVars>>
notDaily == <<sessionVars, weekStartVars, namesVars, resumeVars, middlewareVars, orchVars, loaderVars, batchVars, fetchVars, sweepVars,
    weeklyVars, canonVars, jsonldVars, servingVars>>
notMiddleware == <<sessionVars, weekStartVars, namesVars, resumeVars, dailyVars, servingVars, jsonldVars, orchVars, loaderVars,
    batchVars, fetchVars, sweepVars, weeklyVars, canonVars>>
notResume == <<sessionVars, weekStartVars, namesVars, middlewareVars, dailyVars, servingVars, jsonldVars, orchVars,
    loaderVars, batchVars, fetchVars, sweepVars, weeklyVars, canonVars>>
notNames == <<sessionVars, weekStartVars, resumeVars, middlewareVars, dailyVars, servingVars, jsonldVars,
    orchVars, loaderVars, batchVars, fetchVars, sweepVars, weeklyVars, canonVars>>
notWeekStart == <<sessionVars, namesVars, resumeVars, middlewareVars, dailyVars, servingVars,
    jsonldVars, orchVars, loaderVars, batchVars, fetchVars, sweepVars,
    weeklyVars, canonVars>>
notSession == <<weekStartVars, namesVars, resumeVars, middlewareVars, dailyVars,
    servingVars, jsonldVars, orchVars, loaderVars, batchVars, fetchVars,
    sweepVars, weeklyVars, canonVars>>
\* what a step of one component leaves unchanged
notOrch == <<sessionVars, weekStartVars, namesVars, resumeVars, middlewareVars, dailyVars, servingVars, jsonldVars, loaderVars, batchVars, fetchVars, sweepVars, weeklyVars,
    canonVars>>
notLoader == <<sessionVars, weekStartVars, namesVars, resumeVars, middlewareVars, dailyVars, servingVars, jsonldVars, orchVars, batchVars, fetchVars, sweepVars, weeklyVars,
    canonVars>>
notBatch == <<sessionVars, weekStartVars, namesVars, resumeVars, middlewareVars, dailyVars, servingVars, jsonldVars, orchVars, loaderVars, fetchVars, sweepVars, weeklyVars,
    canonVars>>
notFetch == <<sessionVars, weekStartVars, namesVars, resumeVars, middlewareVars, dailyVars, servingVars, jsonldVars, orchVars, loaderVars, batchVars, sweepVars, weeklyVars,
    canonVars>>
notSweep == <<sessionVars, weekStartVars, namesVars, resumeVars, middlewareVars, dailyVars, servingVars, jsonldVars, orchVars, loaderVars, batchVars, fetchVars, weeklyVars,
    canonVars>>
\* the weekly job writes to the store of the Sweeper
notWeekly == <<sessionVars, weekStartVars, namesVars, resumeVars, middlewareVars, dailyVars, servingVars, jsonldVars, orchVars, loaderVars, batchVars, fetchVars, s_exists, s_pc,
               s_today, week, s_day, s_pending, deleted, s_before, s_failed,
               canonVars>>

\* the values of the `date` parameter of __init__: its default and another day
OrchDates == {"2025-08-05", "2025-08-06"}
\* a file of data_dir: <<date in its name, rank in sorted order>>
AllFiles == OrchDates \X (1..MaxFiles)
NoState == [exists |-> FALSE]
Outcomes == {"ok", "nonzero", "timeout", "error"}

\* find_todays_files: sorted list of data_dir.glob("*<date>.jsonld")
find_todays_files_first(d) ==
    [k \in 1..(IF data_dir[d] > 1 THEN 1 ELSE data_dir[d]) |-> <<d, k>>]
find_todays_files(d) == [k \in 1..data_dir[d] |-> <<d, k>>]

Range(s) == {s[k] : k \in 1..Len(s)}
Occurrences(s, x) == Cardinality({k \in 1..Len(s) : s[k] = x})

\* the dictionary save_state dumps to loading_state.json
StateDictWithoutFailed ==
    [exists |-> TRUE, date |-> date,
     successful_files |-> successful_files,
     failed_files |-> <<>>,
     total_files |-> total_files]
StateDict ==
    [exists |-> TRUE, date |-> date,
     successful_files |-> successful_files,
     failed_files |-> failed_files,
     total_files |-> total_files]

\* the exceptions of one attempt that load_single_file handles itself:
\* a non-zero returncode (else branch), TimeoutExpired, and any Exception
HandlesMissingGeneric(o) == o \in {"nonzero", "timeout"}
Handles(o) == o \in {"nonzero", "timeout", "error"}

\* `if attempt < retries - 1` guarding every backoff sleep
CanRetryOffByOne(a) == a < retries
CanRetry(a) == a < retries - 1

\* the sleep taken before the next attempt
BackoffDelayFlat(o) == ErrorBackoff
BackoffDelay(o) == IF o = "timeout" THEN TimeoutBackoff ELSE ErrorBackoff

\* the status classification at the end of load_all_files
Classify(succ, fail) ==
    IF Len(fail) = 0 THEN "success"
    ELSE IF Len(succ) > 0 THEN "partial"
    ELSE "failed"

OrchInit ==
    /\ data_dir \in [OrchDates -> 0..MaxFiles]
    /\ loading_state = NoState
    /\ date \in OrchDates
    /\ successful_files = <<>>
    /\ failed_files = <<>>
    /\ total_files = 0
    /\ opc = "load_state"
    /\ files = <<>>
    /\ i = 0
    /\ attempt = 0
    /\ invocations = [f \in AllFiles |-> 0]
    /\ failures = [f \in AllFiles |-> 0]
    /\ delay = 0
    /\ outcome = "none"
    /\ interrupted_at = "none"
    /\ status = "none"
    /\ exit_code = -1
    /\ resumed = FALSE
    /\ runs = 1

\* load_state: os.path.exists('loading_state.json') and
\* `if state['date'] == self.date`
ResumableAnyDate(state) == state.exists
Resumable(state) == state.exists /\ state.date = date

\* main, `if loader.load_state():` -- the read of loading_state.json
load_state ==
    /\ UNCHANGED notOrch
    /\ opc = "load_state"
    /\ IF Resumable(loading_state)
       THEN /\ successful_files' = loading_state.successful_files
            /\ failed_files' = loading_state.failed_files
            /\ total_files' = loading_state.total_files
            /\ opc' = "prompt"
       ELSE /\ UNCHANGED <<successful_files, failed_files, total_files>>
            /\ opc' = "load_all_files"
    /\ UNCHANGED <<data_dir, loading_state, date, files, i, attempt,
                   invocations, failures, delay, outcome, interrupted_at, status,
                   exit_code, resumed, runs>>

\* main, the answer to "Resume from previous state? (y/n)"
Prompt(answer) ==
    /\ UNCHANGED notOrch
    /\ opc = "prompt"
    /\ IF answer # "y"
       THEN /\ successful_files' = <<>>
            /\ failed_files' = <<>>
            /\ resumed' = FALSE
       ELSE /\ UNCHANGED <<successful_files, failed_files>>
            /\ resumed' = TRUE
    /\ opc' = "load_all_files"
    /\ UNCHANGED <<data_dir, loading_state, date, total_files, files, i,
                   attempt, invocations, failures, delay, outcome, interrupted_at,
                   status, exit_code, runs>>

\* load_all_files up to the first iteration of its loop
load_all_files ==
    /\ UNCHANGED notOrch
    /\ opc = "load_all_files"
    /\ files' = find_todays_files(date)
    /\ total_files' = Len(files')
    /\ IF Len(files') = 0
       THEN /\ status' = Classify(successful_files, failed_files)
            /\ opc' = "report"
            /\ i' = 0
       ELSE /\ status' = status
            /\ opc' = "attempt"
            /\ i' = 1
    /\ attempt' = 0
    /\ UNCHANGED <<data_dir, loading_state, date, successful_files,
                   failed_files, invocations, failures, delay, outcome, interrupted_at,
                   exit_code, resumed, runs>>

\* one iteration of the retry loop of load_single_file: a subprocess.run call
\* with outcome o, and what load_all_files does with a returned True / False
Attempt(o) ==
    /\ UNCHANGED notOrch
    /\ opc = "attempt"
    /\ invocations' = [invocations EXCEPT ![files[i]] = @ + 1]
    /\ failures' = IF o = "ok" THEN failures
                   ELSE [failures EXCEPT ![files[i]] = @ + 1]
    /\ outcome' = o
    /\ IF o = "ok"
       THEN \* return True; self.successful_files.append(file_path)
            /\ successful_files' = Append(successful_files, files[i])
            /\ opc' = "pause"
            /\ UNCHANGED <<failed_files, attempt, delay, exit_code,
                           loading_state, interrupted_at>>
       ELSE IF ~Handles(o)
       THEN \* the exception leaves load_all_files: main's `except Exception`
            /\ loading_state' = StateDict
            /\ opc' = "error"
            /\ interrupted_at' = opc
            /\ exit_code' = 1
            /\ UNCHANGED <<successful_files, failed_files, attempt, delay>>
       ELSE IF CanRetry(attempt)
       THEN \* time.sleep(5) or time.sleep(10), then the next attempt
            /\ delay' = BackoffDelay(o)
            /\ opc' = "backoff"
            /\ UNCHANGED <<successful_files, failed_files, attempt, exit_code,
                           loading_state, interrupted_at>>
       ELSE \* the loop is exhausted: return False; failed_files.append
            /\ failed_files' = Append(failed_files, files[i])
            /\ opc' = "pause"
            /\ UNCHANGED <<successful_files, attempt, delay, exit_code,
                           loading_state, interrupted_at>>
    /\ UNCHANGED <<data_dir, date, total_files, files, i, status, resumed, runs>>

\* the backoff sleep returns: next value of `attempt` in range(retries)
Wake ==
    /\ UNCHANGED notOrch
    /\ opc = "backoff"
    /\ delay' = 0
    /\ attempt' = attempt + 1
    /\ opc' = "attempt"
    /\ UNCHANGED <<data_dir, loading_state, date, successful_files,
                   failed_files, total_files, files, i, invocations, failures, outcome,
                   interrupted_at, status, exit_code, resumed, runs>>

\* time.sleep(1) after a file is classified returns: next file, or the end of
\* the loop and the status classification
Pause ==
    /\ UNCHANGED notOrch
    /\ opc = "pause"
    /\ IF i < Len(files)
       THEN /\ i' = i + 1
            /\ attempt' = 0
            /\ opc' = "attempt"
            /\ status' = status
       ELSE /\ status' = Classify(successful_files, failed_files)
            /\ opc' = "report"
            /\ UNCHANGED <<i, attempt>>
    /\ UNCHANGED <<data_dir, loading_state, date, successful_files,
                   failed_files, total_files, files, invocations, failures, delay,
                   outcome, interrupted_at, exit_code, resumed, runs>>

\* generate_report raises ZeroDivisionError in its success rate,
\* (len(self.successful_files)/self.total_files)*100, when total_files is 0
ReportNeverFails(n) == FALSE
ReportFails(n) == n = 0

\* generate_report: the success rate divides by self.total_files
generate_report ==
    /\ UNCHANGED notOrch
    /\ opc = "report"
    /\ IF ReportFails(total_files)
       THEN \* ZeroDivisionError: main's `except Exception` saves and exits 1
            /\ loading_state' = StateDict
            /\ opc' = "error"
            /\ interrupted_at' = opc
            /\ exit_code' = 1
       ELSE /\ opc' = "save_state"
            /\ UNCHANGED <<loading_state, exit_code, interrupted_at>>
    /\ UNCHANGED <<data_dir, date, successful_files, failed_files, total_files,
                   files, i, attempt, invocations, failures, delay, outcome, status,
                   resumed, runs>>

\* main, loader.save_state() after the report, and the normal end of main
save_state ==
    /\ UNCHANGED notOrch
    /\ opc = "save_state"
    /\ loading_state' = StateDict
    /\ opc' = "completed"
    /\ exit_code' = 0
    /\ UNCHANGED <<data_dir, date, successful_files, failed_files, total_files,
                   files, i, attempt, invocations, failures, delay, outcome,
                   interrupted_at, status, resumed, runs>>

\* the positions of main's try block, the prompt before it included
InTryWithPrompt ==
    {"prompt", "load_all_files", "attempt", "backoff", "pause", "report",
     "save_state"}
\* the positions inside main's try block
InTry == {"load_all_files", "attempt", "backoff", "pause", "report", "save_state"}

\* KeyboardInterrupt inside the try block: save_state(), sys.exit(1)
KeyboardInterrupt ==
    /\ UNCHANGED notOrch
    /\ opc \in InTry
    /\ loading_state' = StateDict
    /\ opc' = "interrupted"
    /\ interrupted_at' = opc
    /\ exit_code' = 1
    /\ UNCHANGED <<data_dir, date, successful_files, failed_files, total_files,
                   files, i, attempt, invocations, failures, delay, outcome, status,
                   resumed, runs>>

\* KeyboardInterrupt before the try block (load_state, the prompt): the
\* interpreter ends the process, nothing is saved
InterruptOutsideTry ==
    /\ UNCHANGED notOrch
    /\ opc \in {"load_state", "prompt"}
    /\ opc' = "killed"
    /\ exit_code' = 130
    /\ UNCHANGED <<data_dir, loading_state, date, successful_files,
                   failed_files, total_files, files, i, attempt, invocations, failures,
                   delay, outcome, interrupted_at, status, resumed, runs>>

Terminated == opc \in {"completed", "interrupted", "error", "killed"}

\* the script is run again: RobustMenuLoader.__init__
NewProcess(d) ==
    /\ UNCHANGED notOrch
    /\ Terminated
    /\ runs < MaxRuns
    /\ runs' = runs + 1
    /\ date' = d
    /\ successful_files' = <<>>
    /\ failed_files' = <<>>
    /\ total_files' = 0
    /\ opc' = "load_state"
    /\ files' = <<>>
    /\ i' = 0
    /\ attempt' = 0
    /\ invocations' = [f \in AllFiles |-> 0]
    /\ failures' = [f \in AllFiles |-> 0]
    /\ delay' = 0
    /\ outcome' = "none"
    /\ interrupted_at' = "none"
    /\ status' = "none"
    /\ exit_code' = -1
    /\ resumed' = FALSE
    /\ UNCHANGED <<data_dir, loading_state>>

OrchNext ==
    \/ load_state
    \/ \E answer \in {"y", "n"} : Prompt(answer)
    \/ load_all_files
    \/ \E o \in Outcomes : Attempt(o)
    \/ Wake
    \/ Pause
    \/ generate_report
    \/ save_state
    \/ KeyboardInterrupt
    \/ InterruptOutsideTry
    \/ \E d \in OrchDates : NewProcess(d)

\* bound: the largest number of files of the first, fresh run
MaxFreshFiles == 5
FreshFiles == OrchDates \X (1..MaxFreshFiles)

\* the first run of the script: no loading_state.json, up to MaxFreshFiles
\* files of its date in data_dir
FreshInit ==
    /\ data_dir \in [OrchDates -> 0..MaxFreshFiles]
    /\ loading_state = NoState
    /\ date \in OrchDates
    /\ successful_files = <<>>
    /\ failed_files = <<>>
    /\ total_files = 0
    /\ opc = "load_state"
    /\ files = <<>>
    /\ i = 0
    /\ attempt = 0
    /\ invocations = [f \in FreshFiles |-> 0]
    /\ failures = [f \in FreshFiles |-> 0]
    /\ delay = 0
    /\ outcome = "none"
    /\ interrupted_at = "none"
    /\ status = "none"
    /\ exit_code = -1
    /\ resumed = FALSE
    /\ runs = 1

\* one process, from load_state to its exit
FreshNext ==
    \/ load_state
    \/ load_all_files
    \/ \E o \in Outcomes : Attempt(o)
    \/ Wake
    \/ Pause
    \/ generate_report
    \/ save_state
    \/ KeyboardInterrupt
    \/ InterruptOutsideTry

\* the list of the files <<d, k>>, k in S, in sorted order
FilesOf(d, S) ==
    LET s == CHOOSE s \in [1..Cardinality(S) -> S] :
                 \A a, b \in 1..Cardinality(S) : a < b => s[a] < s[b]
    IN [k \in 1..Cardinality(S) |-> <<d, s[k]>>]

\* what an earlier, fresh run over dir can have left in loading_state.json:
\* nothing; or, for its date d, the files it had classified when it ended
\* (the first m of the n files of d, each in one of the two lists) with
\* total_files = n, or 0 when it was interrupted before it counted them
PriorStates(dir) ==
    {NoState} \cup
    UNION {{[exists |-> TRUE, date |-> x[1],
             successful_files |-> FilesOf(x[1], S),
             failed_files |-> FilesOf(x[1], (1..x[3]) \ S),
             total_files |-> x[2]] : S \in SUBSET (1..x[3])} :
           x \in {y \in OrchDates \X (0..MaxFiles) \X (0..MaxFiles) :
                     y[2] \in {0, dir[y[1]]} /\ y[3] <= y[2]}}

\* one run of the script as main starts it, RobustMenuLoader() with the
\* default date, over what an earlier run (for that date or, with another
\* default, for the other) may have left
RunInit ==
    /\ data_dir \in [OrchDates -> 0..MaxFiles]
    /\ loading_state \in PriorStates(data_dir)
    /\ date = "2025-08-05"
    /\ successful_files = <<>>
    /\ failed_files = <<>>
    /\ total_files = 0
    /\ opc = "load_state"
    /\ files = <<>>
    /\ i = 0
    /\ attempt = 0
    /\ invocations = [f \in AllFiles |-> 0]
    /\ failures = [f \in AllFiles |-> 0]
    /\ delay = 0
    /\ outcome = "none"
    /\ interrupted_at = "none"
    /\ status = "none"
    /\ exit_code = -1
    /\ resumed = FALSE
    /\ runs = 1

\* one process, from load_state to its exit
RunNext ==
    \/ load_state
    \/ \E answer \in {"y", "n"} : Prompt(answer)
    \/ load_all_files
    \/ \E o \in Outcomes : Attempt(o)
    \/ Wake
    \/ Pause
    \/ generate_report
    \/ save_state
    \/ KeyboardInterrupt
    \/ InterruptOutsideTry

(***************************************************************************)
(*                      THE VECTOR SYNC LOADER                              *)
(***************************************************************************)
\* bounds: the target dates are the days 1..MaxDate; at most MaxDisk files
\* of one date lie under the JSON-LD root
MaxDate == 3
MaxDisk == 2

\* `if len(pts) >= 128` -- the size of an upsert batch
BatchSize == 128
BatchFullAbove(n) == n > BatchSize
BatchFull(n) == n >= BatchSize

Procs == {1, 2}
Dates == 1..MaxDate
\* a sitetag "menus_<date>" is modelled by its date; day 0 is the day before 1
Tags == 0..MaxDate
Names == {"x", "y", "u", "e"}
\* Path(path).stem of a canonical file: <name>_<date>
Docs == Names \X Dates
\* the files the Canonicalizer may write for one day, as <<folder, name,
\* extension>>: two of them have the same stem
Shapes == {<<"a", "x", "jsonld">>, <<"b", "x", "json">>, <<"a", "y", "jsonld">>,
           <<"a", "u", "jsonld">>, <<"a", "e", "jsonld">>}
File(sh, d) == [dir |-> sh[1], name |-> sh[2], ext |-> sh[3], date |-> d]
\* the roots of the model: at most MaxDisk files a day, the same every day,
\* and at most one day without any file
Roots ==
    {{File(sh, d) : sh \in S, d \in D} :
        S \in {T \in SUBSET Shapes : Cardinality(T) <= MaxDisk},
        D \in {Dates} \cup {Dates \ {d} : d \in Dates}}

\* what json.loads and extract_text make of the file's content
Content(f) ==
    IF f.name = "u" THEN "unparseable"
    ELSE IF f.name = "e" THEN "empty_text"
    ELSE "ok"

\* f"menus_{date}"
SiteTag(d) == d

\* file_doc_id: Path(path).stem
file_doc_id(f) == <<f.name, f.date>>

\* `date_str in str(p)`
MatchesDate(f, d) == f.date = d

Perms(S) ==
    {s \in [1..Cardinality(S) -> S] :
        \A a, b \in 1..Cardinality(S) : a # b => s[a] # s[b]}

\* iter_jsonld_files: every *.json match, then every *.jsonld match; the
\* order inside one rglob is the file system's
iter_jsonld_files(d) ==
    {s \in Perms({f \in jsonld_root : MatchesDate(f, d)}) :
        \A a, b \in 1..Len(s) :
            a < b => ~(s[a].ext = "jsonld" /\ s[b].ext = "json")}

\* exists_today_for_doc: count(sitetag, doc_id) > 0
exists_today_for_doc_above_one(tag, doc) == CopiesIn(<<tag, doc>>, points) > 1
exists_today_for_doc(tag, doc) == CopiesIn(<<tag, doc>>, points) > 0

\* qd.upsert(points=staged) of points tagged tag
StagedBag(tag, staged) ==
    [k \in {<<tag, staged[n]>> : n \in 1..Len(staged)} |->
        Cardinality({n \in 1..Len(staged) : <<tag, staged[n]>> = k})]
Upsert(pf, tag, staged) == pf (+) StagedBag(tag, staged)

\* qd.delete with a filter on sitetag
DeleteByTagNoMatch(pf, tag) == pf
DeleteByTagNoFilter(pf, tag) == EmptyBag
DeleteByTag(pf, tag) ==
    [k \in {q \in DOMAIN pf : q[1] # tag} |-> pf[k]]

\* the tag step 1) of main deletes: f"menus_{args.yesterday}"
DeletedTagToday(t, y) == SiteTag(t)
DeletedTag(t, y) == SiteTag(y)

\* where main goes after step 1): the delete is inside try/except
AfterDeleteFatal(ok) == IF ok THEN "list" ELSE "done"
AfterDelete(ok) == "list"

\* required_vars of validate_env, required_env_vars of tasks.daily
required_vars == {"QDRANT_URL", "OPENAI_API_KEY"}
\* missing = [var for var in required_vars if not os.environ.get(var)]
MissingOnlyUrl(e) == {"QDRANT_URL"} \ e
Missing(e) == required_vars \ e

\* daily: yesterday = today - datetime.timedelta(days=1)
YesterdayOf(t) == t - 1

LoaderInit ==
    /\ jsonld_root \in Roots
    /\ coll_exists \in BOOLEAN
    /\ indexes = {}
    /\ points = EmptyBag
    /\ lpc = [p \in Procs |-> "idle"]
    /\ today = [p \in Procs |-> 0]
    /\ yesterday = [p \in Procs |-> 0]
    /\ run_files = [p \in Procs |-> <<>>]
    /\ idx = [p \in Procs |-> 0]
    /\ pts = [p \in Procs |-> <<>>]
    /\ log_delete = [p \in Procs |-> "none"]
    /\ created = [p \in Procs |-> 0]
    /\ retired = [p \in Procs |-> 0]
    /\ prior = [p \in Procs |-> "none"]
    /\ embed_failed = [p \in Procs |-> {}]
    /\ last_done = 0
    /\ last_clean = TRUE
    /\ last_today = 0
    /\ retire_missed = FALSE
    /\ log_loop = [p \in Procs |-> "none"]
    /\ env \in SUBSET required_vars

\* the Loader process p starts with --today t --yesterday t - 1: argparse
StartLoader(p, t) ==
    /\ last_today' = t
    /\ retire_missed' = (retire_missed \/ (last_today # 0 /\ t > last_today + 1))
    /\ today' = [today EXCEPT ![p] = t]
    /\ yesterday' = [yesterday EXCEPT ![p] = YesterdayOf(t)]
    /\ lpc' = [lpc EXCEPT ![p] = "validate_env"]
    /\ prior' = [prior EXCEPT ![p] =
                    IF last_done # t THEN "none"
                    ELSE IF last_clean THEN "clean" ELSE "unclean"]

\* tasks.daily: SystemExit(1) when a required variable is missing; else it
\* computes today and yesterday and runs the Loader
daily(p, t) ==
    /\ UNCHANGED notLoader
    /\ lpc[p] = "idle"
    /\ t >= last_today
    /\ IF Missing(env) # {}
       THEN /\ lpc' = [lpc EXCEPT ![p] = "env_missing"]
            /\ UNCHANGED <<last_today, retire_missed, today, yesterday, prior>>
       ELSE StartLoader(p, t)
    /\ UNCHANGED <<run_files, idx, pts, log_delete, created, retired,
                   embed_failed, log_loop>>
    /\ UNCHANGED <<env, jsonld_root, coll_exists, indexes, points, last_done,
                   last_clean>>

\* the Loader run from the command line, without tasks.daily before it
loader_main(p, t) ==
    /\ UNCHANGED notLoader
    /\ lpc[p] = "idle"
    /\ t >= last_today
    /\ StartLoader(p, t)
    /\ UNCHANGED <<run_files, idx, pts, log_delete, created, retired,
                   embed_failed, log_loop>>
    /\ UNCHANGED <<env, jsonld_root, coll_exists, indexes, points, last_done,
                   last_clean>>

\* validate_env, the first statement of main: sys.exit(1) when a required
\* variable is missing; else main goes on to build its clients
validate_env(p) ==
    /\ UNCHANGED notLoader
    /\ lpc[p] = "validate_env"
    /\ IF Missing(env) # {}
       THEN /\ lpc' = [lpc EXCEPT ![p] = "env_missing"]
            /\ last_done' = 0
            /\ last_clean' = TRUE
       ELSE /\ lpc' = [lpc EXCEPT ![p] = "ensure_indexes"]
            /\ UNCHANGED <<last_done, last_clean>>
    /\ UNCHANGED <<today, yesterday, run_files, idx, pts, log_delete, created,
                   retired, prior, embed_failed, log_loop, last_today,
                   retire_missed>>
    /\ UNCHANGED <<env, jsonld_root, coll_exists, indexes, points>>

\* ensure_indexes(qd, coll): create_payload_index for sitetag and doc_id; the
\* call raises when the collection does not exist, and the exception is dropped
ensure_indexes(p) ==
    /\ UNCHANGED notLoader
    /\ lpc[p] = "ensure_indexes"
    /\ indexes' = IF coll_exists THEN indexes \cup {"sitetag", "doc_id"}
                  ELSE indexes
    /\ lpc' = [lpc EXCEPT ![p] = "ensure_collection"]
    /\ UNCHANGED <<env, jsonld_root, coll_exists, points, today, yesterday,
                   run_files, idx, pts, log_delete, created, retired, prior,
                   embed_failed, log_loop,
                   last_done, last_clean, last_today, retire_missed>>

\* main: get_collection, create_collection when it raises, then
\* create_payload_index for sitetag and site, then update_collection
ensure_collection(p) ==
    /\ UNCHANGED notLoader
    /\ lpc[p] = "ensure_collection"
    /\ coll_exists' = TRUE
    /\ indexes' = indexes \cup {"sitetag", "site"}
    /\ lpc' = [lpc EXCEPT ![p] = "delete"]
    /\ UNCHANGED <<env, jsonld_root, points, today, yesterday, run_files, idx, pts,
                   log_delete, created, retired, prior, embed_failed,
                   log_loop, last_done, last_clean, last_today, retire_missed>>

\* main step 1): qd.delete of yesterday's sitetag inside try/except
delete_yesterday(p, ok) ==
    /\ UNCHANGED notLoader
    /\ lpc[p] = "delete"
    /\ IF ok
       THEN /\ points' = DeleteByTag(points, DeletedTag(today[p], yesterday[p]))
            /\ retired' = [retired EXCEPT ![p] =
                              BagCardinality(points) - BagCardinality(points')]
            /\ log_delete' = [log_delete EXCEPT ![p] = "deleted"]
            /\ UNCHANGED retire_missed
       ELSE /\ UNCHANGED <<points, retired>>
            /\ log_delete' = [log_delete EXCEPT ![p] = "warn"]
            /\ retire_missed' = TRUE
    /\ lpc' = [lpc EXCEPT ![p] = AfterDelete(ok)]
    /\ UNCHANGED <<env, jsonld_root, coll_exists, indexes, today, yesterday,
                   run_files, idx, pts, created, prior, embed_failed,
                   log_loop, last_done, last_clean, last_today>>

\* the run of process p ends with exit code c
Finished(p, c) ==
    /\ last_done' = IF c = 0 THEN today[p] ELSE 0
    /\ last_clean' = IF c = 0 THEN embed_failed[p] = {} ELSE TRUE

\* main step 2): files = list(iter_jsonld_files(...)); SystemExit when empty
list_files(p) ==
    /\ UNCHANGED notLoader
    /\ lpc[p] = "list"
    /\ \E s \in iter_jsonld_files(today[p]) :
        /\ run_files' = [run_files EXCEPT ![p] = s]
        /\ IF Len(s) = 0
           THEN /\ lpc' = [lpc EXCEPT ![p] = "no_files"]
                /\ idx' = idx
           ELSE /\ lpc' = [lpc EXCEPT ![p] = "loop"]
                /\ idx' = [idx EXCEPT ![p] = 1]
    /\ UNCHANGED embed_failed
    /\ IF lpc'[p] = "no_files" THEN Finished(p, 1) ELSE UNCHANGED <<last_done, last_clean>>
    /\ UNCHANGED <<env, jsonld_root, coll_exists, indexes, points, today,
                   yesterday, pts, log_delete, created, retired, prior,
                   log_loop, last_today, retire_missed>>

\* position after the file at idx: the next file, or the final flush
Advance(p) ==
    /\ idx' = [idx EXCEPT ![p] = @ + 1]
    /\ lpc' = [lpc EXCEPT ![p] =
                  IF idx[p] < Len(run_files[p]) THEN "loop" ELSE "flush"]

\* the `continue` statements between the existence check and pts.append: the
\* file's content c cannot be parsed or has no text, or the embedding call
\* with outcome o raised or returned an empty vector
SkipsEmbedOnly(c, o) == o \in {"embed_error", "empty_vector"}
Skips(c, o) == c # "ok" \/ o \in {"embed_error", "empty_vector"}

\* one iteration of `for fp in files`, the vector and embedding services
\* answering with outcome o
process_file(p, o) ==
    /\ UNCHANGED notLoader
    /\ lpc[p] = "loop"
    /\ LET fp == run_files[p][idx[p]]
           doc_id == file_doc_id(fp)
           t_tag == SiteTag(today[p])
           staged == Append(pts[p], doc_id)
           Log(l) == log_loop' = [log_loop EXCEPT ![p] = l]
       IN
       IF o = "count_error"
       THEN \* qd.count raises: nothing catches it
            /\ lpc' = [lpc EXCEPT ![p] = "aborted"]
            /\ Finished(p, 1)
            /\ Log("count_error")
            /\ UNCHANGED <<points, idx, pts, created, embed_failed>>
       ELSE IF exists_today_for_doc(t_tag, doc_id)
       THEN \* skip_existing
            /\ Advance(p)
            /\ Log("skip_existing")
            /\ UNCHANGED <<points, pts, created, embed_failed, last_done, last_clean>>
       ELSE IF Skips(Content(fp), o)
       THEN \* json.loads raised, the extracted text is empty, the embedding
            \* call raised or gave no vector: continue
            /\ IF Content(fp) # "ok"
               THEN /\ Log("skip_parse")
                    /\ UNCHANGED embed_failed
               ELSE /\ Log("skip_embed")
                    /\ embed_failed' = [embed_failed EXCEPT ![p] = @ \cup {fp}]
            /\ Advance(p)
            /\ UNCHANGED <<points, pts, created, last_done, last_clean>>
       ELSE IF ~BatchFull(Len(staged))
       THEN \* pts.append(...)
            /\ pts' = [pts EXCEPT ![p] = staged]
            /\ Advance(p)
            /\ Log("staged")
            /\ UNCHANGED <<points, created, embed_failed, last_done, last_clean>>
       ELSE IF o = "upsert_error"
       THEN \* the batch upsert raises: nothing catches it
            /\ pts' = [pts EXCEPT ![p] = staged]
            /\ lpc' = [lpc EXCEPT ![p] = "aborted"]
            /\ Finished(p, 1)
            /\ Log("upsert_error")
            /\ UNCHANGED <<points, idx, created, embed_failed>>
       ELSE \* qd.upsert(points=pts); pts = []
            /\ points' = Upsert(points, t_tag, staged)
            /\ created' = [created EXCEPT ![p] = @ + Len(staged)]
            /\ pts' = [pts EXCEPT ![p] = <<>>]
            /\ Advance(p)
            /\ Log("upserted")
            /\ UNCHANGED <<embed_failed, last_done, last_clean>>
    /\ UNCHANGED <<env, jsonld_root, coll_exists, indexes, today, yesterday,
                   run_files, log_delete, retired, prior, last_today,
                   retire_missed>>

\* after the loop: `if pts: qd.upsert(...)`, the final print, exit code 0
flush(p, ok) ==
    /\ UNCHANGED notLoader
    /\ lpc[p] = "flush"
    /\ IF pts[p] = <<>>
       THEN /\ lpc' = [lpc EXCEPT ![p] = "done"]
            /\ Finished(p, 0)
            /\ UNCHANGED <<points, pts, created>>
       ELSE IF ok
       THEN /\ points' = Upsert(points, SiteTag(today[p]), pts[p])
            /\ created' = [created EXCEPT ![p] = @ + Len(pts[p])]
            /\ lpc' = [lpc EXCEPT ![p] = "done"]
            /\ Finished(p, 0)
            /\ UNCHANGED pts
       ELSE /\ lpc' = [lpc EXCEPT ![p] = "aborted"]
            /\ Finished(p, 1)
            /\ UNCHANGED <<points, pts, created>>
    /\ UNCHANGED <<env, jsonld_root, coll_exists, indexes, today, yesterday,
                   run_files, idx, log_delete, retired, prior, embed_failed,
                   log_loop, last_today, retire_missed>>

\* the process has exited and its memory is gone; the scheduler may start
\* the next run
exit_process(p) ==
    /\ UNCHANGED notLoader
    /\ lpc[p] \in {"done", "aborted", "no_files", "env_missing"}
    /\ lpc' = [lpc EXCEPT ![p] = "idle"]
    /\ today' = [today EXCEPT ![p] = 0]
    /\ yesterday' = [yesterday EXCEPT ![p] = 0]
    /\ run_files' = [run_files EXCEPT ![p] = <<>>]
    /\ idx' = [idx EXCEPT ![p] = 0]
    /\ pts' = [pts EXCEPT ![p] = <<>>]
    /\ log_delete' = [log_delete EXCEPT ![p] = "none"]
    /\ created' = [created EXCEPT ![p] = 0]
    /\ retired' = [retired EXCEPT ![p] = 0]
    /\ prior' = [prior EXCEPT ![p] = "none"]
    /\ embed_failed' = [embed_failed EXCEPT ![p] = {}]
    /\ log_loop' = [log_loop EXCEPT ![p] = "none"]
    /\ UNCHANGED <<env, jsonld_root, coll_exists, indexes, points, last_done,
                   last_clean, last_today, retire_missed>>

LoaderOutcomes == {"ok", "embed_error", "empty_vector", "count_error",
                   "upsert_error"}

LoaderStep(p) ==
    \/ validate_env(p)
    \/ ensure_indexes(p)
    \/ ensure_collection(p)
    \/ \E ok \in BOOLEAN : delete_yesterday(p, ok)
    \/ list_files(p)
    \/ \E o \in LoaderOutcomes : process_file(p, o)
    \/ \E ok \in BOOLEAN : flush(p, ok)
    \/ exit_process(p)

\* runs never overlap: one Loader process, started again after it has exited
LoaderNext ==
    \/ \E t \in Dates : daily(1, t)
    \/ \E t \in Dates : loader_main(1, t)
    \/ LoaderStep(1)

\* the two consecutive days the overlapping Loader runs are started for
ConcDates == {2, 3}

\* two Loader processes side by side on a collection that exists, with the
\* required variables set and one canonical file a day under the root
ConcInit ==
    /\ jsonld_root = {File(<<"a", "x", "jsonld">>, d) : d \in ConcDates}
    /\ coll_exists = TRUE
    /\ indexes = {}
    /\ points = EmptyBag
    /\ lpc = [p \in Procs |-> "idle"]
    /\ today = [p \in Procs |-> 0]
    /\ yesterday = [p \in Procs |-> 0]
    /\ run_files = [p \in Procs |-> <<>>]
    /\ idx = [p \in Procs |-> 0]
    /\ pts = [p \in Procs |-> <<>>]
    /\ log_delete = [p \in Procs |-> "none"]
    /\ created = [p \in Procs |-> 0]
    /\ retired = [p \in Procs |-> 0]
    /\ prior = [p \in Procs |-> "none"]
    /\ embed_failed = [p \in Procs |-> {}]
    /\ last_done = 0
    /\ last_clean = TRUE
    /\ last_today = 0
    /\ retire_missed = FALSE
    /\ log_loop = [p \in Procs |-> "none"]
    /\ env = required_vars

\* nothing keeps a second Loader from starting while the first one runs
ConcNext ==
    \/ \E p \in Procs, t \in ConcDates : loader_main(p, t)
    \/ \E p \in Procs : LoaderStep(p)

(***************************************************************************)
(*        THE UPSERT LOOP OF THE LOADER OVER A LONG LIST OF FILES           *)
(***************************************************************************)
\* bound: the largest number of files of one run
MaxBatchFiles == 130

\* main after `files = list(...)` found at least one file: pts = []
BatchInit ==
    /\ b_files \in 1..MaxBatchFiles
    /\ b_idx = 1
    /\ b_pts = 0
    /\ b_pc = "loop"
    /\ b_staged = 0
    /\ b_upserted = 0
    /\ b_largest = 0

\* position after the file at b_idx
BatchAdvance ==
    /\ b_idx' = b_idx + 1
    /\ b_pc' = IF b_idx < b_files THEN "loop" ELSE "flush"

\* an iteration that ends in `continue`: skip_existing, a file that cannot
\* be parsed or has no text, a failed embedding call
batch_skip ==
    /\ UNCHANGED notBatch
    /\ b_pc = "loop"
    /\ BatchAdvance
    /\ UNCHANGED <<b_files, b_pts, b_staged, b_upserted, b_largest>>

\* an iteration that reaches pts.append; `if len(pts) >= 128` then upserts
\* the batch (ok: the upsert call returns) and empties the buffer
batch_stage(ok) ==
    /\ UNCHANGED notBatch
    /\ b_pc = "loop"
    /\ b_staged' = b_staged + 1
    /\ IF ~BatchFull(b_pts + 1)
       THEN /\ b_pts' = b_pts + 1
            /\ BatchAdvance
            /\ UNCHANGED <<b_upserted, b_largest>>
       ELSE IF ok
       THEN /\ b_upserted' = b_upserted + (b_pts + 1)
            /\ b_largest' = IF b_pts + 1 > b_largest THEN b_pts + 1
                                                     ELSE b_largest
            /\ b_pts' = 0
            /\ BatchAdvance
       ELSE /\ b_pts' = b_pts + 1
            /\ b_pc' = "aborted"
            /\ UNCHANGED <<b_idx, b_upserted, b_largest>>
    /\ UNCHANGED b_files

\* qd.count of the existence check raises: nothing catches it
batch_abort ==
    /\ UNCHANGED notBatch
    /\ b_pc = "loop"
    /\ b_pc' = "aborted"
    /\ UNCHANGED <<b_files, b_idx, b_pts, b_staged, b_upserted, b_largest>>

\* after the loop: `if pts: qd.upsert(...)`
batch_flush(ok) ==
    /\ UNCHANGED notBatch
    /\ b_pc = "flush"
    /\ IF b_pts = 0
       THEN /\ b_pc' = "done"
            /\ UNCHANGED <<b_upserted, b_largest>>
       ELSE IF ok
       THEN /\ b_upserted' = b_upserted + b_pts
            /\ b_largest' = IF b_pts > b_largest THEN b_pts ELSE b_largest
            /\ b_pc' = "done"
       ELSE /\ b_pc' = "aborted"
            /\ UNCHANGED <<b_upserted, b_largest>>
    /\ UNCHANGED <<b_files, b_idx, b_pts, b_staged>>

BatchNext ==
    \/ batch_skip
    \/ \E ok \in BOOLEAN : batch_stage(ok)
    \/ batch_abort
    \/ \E ok \in BOOLEAN : batch_flush(ok)

(***************************************************************************)
(*                            THE FETCHER                                   *)
(***************************************************************************)
\* bounds: the days of a weekly response and the line-items of one day
MaxDays == 1
MaxItems == 1

\* DINING_HALL_SLUGS and MEAL_TYPES of .env
HALLS == {"gordon", "rhetas", "liz"}
MEALS == {"lunch"}
Pairs == HALLS \X MEALS

\* resp.status
Statuses == {200, 404, 500}
\* a line-item: its `food` field is populated or not (missing, null, empty)
Items == [food : BOOLEAN]
SeqsUpTo(S, n) == UNION {[1..k -> S] : k \in 0..n}
\* the parsed body of a response: data["days"][..]["menu_items"] and
\* data["school_slug"] ("" when the key is missing or empty)
Bodies ==
    [days : SeqsUpTo(SeqsUpTo(Items, MaxItems), MaxDays),
     school_slug : {""} \cup HALLS]
\* what can raise inside the try block of fetch: the request, the read or
\* the parse of the body (a body that is not the JSON expected)
Raised == {"ClientError", "TimeoutError", "JSONDecodeError"}

\* out = folder / f"{slug}_{meal}_{sunday}.json"
RawFile(pair) == <<pair[1], pair[2]>>

\* menu_is_empty: the two nested loops over days and menu_items
RECURSIVE items_have_food(_)
items_have_food(items) ==
    IF items = <<>> THEN FALSE
    ELSE IF Head(items).food THEN TRUE
    ELSE items_have_food(Tail(items))
RECURSIVE days_have_food(_)
days_have_food(days) ==
    IF days = <<>> THEN FALSE
    ELSE IF items_have_food(Head(days)) THEN TRUE
    ELSE days_have_food(Tail(days))
menu_is_empty_no_days(d) == d.days = <<>>
menu_is_empty(d) == ~days_have_food(d.days)

\* `if data.get("school_slug") and data["school_slug"] != slug`
is_fallback(d, slug) == d.school_slug # "" /\ d.school_slug # slug

\* `except Exception as e` of fetch
CatchesOnlyClientError(e) == e = "ClientError"
Catches(e) == e \in Raised

NotSeen == [status |-> 0, food |-> FALSE, school_slug |-> ""]

\* module level and main: the week's folder exists, the session is open and
\* gather has scheduled one fetch coroutine for every (hall, meal)
FetchInit ==
    /\ raw_folder \in {{}, {RawFile(pr) : pr \in Pairs}}
    /\ f_pc = [pr \in Pairs |-> "start"]
    /\ f_log = [pr \in Pairs |-> "none"]
    /\ f_main = "gather"
    /\ f_written = {}
    /\ f_seen = [pr \in Pairs |-> NotSeen]

\* an exception e inside fetch: caught and printed, or it leaves the
\* coroutine, gather re-raises it in main and asyncio.run cancels the rest
FetchRaise(pr, e) ==
    IF Catches(e)
    THEN /\ f_pc' = [f_pc EXCEPT ![pr] = "done"]
         /\ f_log' = [f_log EXCEPT ![pr] = "error"]
         /\ UNCHANGED f_main
    ELSE /\ f_pc' = [q \in Pairs |-> IF f_pc[q] = "done" /\ q # pr
                                      THEN "done" ELSE "cancelled"]
         /\ f_log' = f_log
         /\ f_main' = "crashed"

\* fetch up to its first await: `async with session.get(url) as resp`
fetch(pr) ==
    /\ UNCHANGED notFetch
    /\ f_main = "gather"
    /\ f_pc[pr] = "start"
    /\ f_pc' = [f_pc EXCEPT ![pr] = "get"]
    /\ UNCHANGED <<raw_folder, f_log, f_main, f_written, f_seen>>

\* the response headers arrive: `if resp.status != 200` prints closed and
\* returns; else fetch awaits resp.json()
fetch_status(pr, st) ==
    /\ UNCHANGED notFetch
    /\ f_pc[pr] = "get"
    /\ f_seen' = [f_seen EXCEPT ![pr].status = st]
    /\ IF st # 200
       THEN /\ f_pc' = [f_pc EXCEPT ![pr] = "done"]
            /\ f_log' = [f_log EXCEPT ![pr] = "closed_http"]
       ELSE /\ f_pc' = [f_pc EXCEPT ![pr] = "json"]
            /\ f_log' = f_log
    /\ UNCHANGED <<raw_folder, f_main, f_written>>

\* the body arrives and parses to d: the two closed checks, then the write
fetch_body(pr, d) ==
    /\ UNCHANGED notFetch
    /\ f_pc[pr] = "json"
    /\ f_seen' = [f_seen EXCEPT ![pr].food =
                      \E k \in 1..Len(d.days) :
                          \E n \in 1..Len(d.days[k]) : d.days[k][n].food,
                                 ![pr].school_slug = d.school_slug]
    /\ f_pc' = [f_pc EXCEPT ![pr] = "done"]
    /\ IF menu_is_empty(d)
       THEN /\ f_log' = [f_log EXCEPT ![pr] = "closed_empty"]
            /\ UNCHANGED <<raw_folder, f_written>>
       ELSE IF is_fallback(d, pr[1])
       THEN /\ f_log' = [f_log EXCEPT ![pr] = "closed_fallback"]
            /\ UNCHANGED <<raw_folder, f_written>>
       ELSE /\ f_log' = [f_log EXCEPT ![pr] = "saved"]
            /\ raw_folder' = raw_folder \cup {RawFile(pr)}
            /\ f_written' = f_written \cup {RawFile(pr)}
    /\ UNCHANGED f_main

\* the request, or the read and parse of the body, raises e
fetch_raises(pr, e) ==
    /\ UNCHANGED notFetch
    /\ f_pc[pr] \in {"get", "json"}
    /\ FetchRaise(pr, e)
    /\ UNCHANGED <<raw_folder, f_written, f_seen>>

\* every coroutine has returned: gather returns, main ends
gather ==
    /\ UNCHANGED notFetch
    /\ f_main = "gather"
    /\ \A pr \in Pairs : f_pc[pr] = "done"
    /\ f_main' = "done"
    /\ UNCHANGED <<raw_folder, f_pc, f_log, f_written, f_seen>>

FetchNext ==
    \/ \E pr \in Pairs : fetch(pr)
    \/ \E pr \in Pairs, st \in Statuses : fetch_status(pr, st)
    \/ \E pr \in Pairs, d \in Bodies : fetch_body(pr, d)
    \/ \E pr \in Pairs, e \in Raised : fetch_raises(pr, e)
    \/ gather

(***************************************************************************)
(*                       THE RETENTION SWEEPER                              *)
(***************************************************************************)
\* bound: dates are day numbers (date.toordinal()) 1..MaxSweepDay; day 1 is
\* a Monday, days 7, 14 and 21 are Sundays
MaxSweepDay == 21
SweepDays == 1..MaxSweepDay

\* date.weekday(): Monday is 0, Sunday is 6
weekday(d) == (d - 1) % 7
\* sunday_of: the Sunday on or before d
sunday_of_monday(d) == d - weekday(d)
sunday_of(d) == d - ((weekday(d) + 1) % 7)

\* the kinds of files under JSONLD_DIR: depth below the root, the character
\* before the date in the name, the extension, and whether unlink is refused
SweepShapes ==
    {[depth |-> 0, sep |-> "_", ext |-> "jsonld", locked |-> FALSE],
     [depth |-> 2, sep |-> "_", ext |-> "jsonld", locked |-> FALSE],
     [depth |-> 1, sep |-> "_", ext |-> "jsonld", locked |-> TRUE],
     [depth |-> 0, sep |-> "_", ext |-> "json", locked |-> FALSE],
     [depth |-> 0, sep |-> "-", ext |-> "jsonld", locked |-> FALSE]}
\* a file of shape sh dated d; the Canonicalizer names a file of a day
\* without a date "..._unknown-date.jsonld"
SweepFile(sh, d) == [shape |-> sh, date |-> d]
\* the day number that stands for "unknown-date": no date has it
UnknownDate == -1
\* the stores of the model: files of some shapes for every day, with or
\* without an undated file
Stores ==
    {{SweepFile(sh, d) : sh \in S, d \in SweepDays} \cup U :
        S \in SUBSET SweepShapes,
        U \in SUBSET {SweepFile([depth |-> 0, sep |-> "_", ext |-> "jsonld",
                                 locked |-> FALSE], UnknownDate)}}

\* jsonld_dir.rglob(f"*_{day.isoformat()}.jsonld"): any depth
rglob_suffix(dir, day) ==
    {f \in dir : f.date = day /\ f.shape.sep = "_" /\ f.shape.ext = "jsonld"}

\* the script is started on some day; JSONLD_DIR exists or not
SweepInit ==
    /\ s_exists \in BOOLEAN
    /\ store \in IF s_exists THEN Stores ELSE {{}}
    /\ s_today \in 8..MaxSweepDay
    /\ s_pc = "start"
    /\ week = <<>>
    /\ s_day = 0
    /\ s_pending = {}
    /\ deleted = 0
    /\ s_before = store
    /\ s_failed = {}

\* main up to its loop: last_sunday, week, the check that the directory exists
cleanup_main ==
    /\ UNCHANGED notSweep
    /\ s_pc = "start"
    /\ week' = [k \in 1..7 |-> (sunday_of(s_today) - 7) + (k - 1)]
    /\ IF ~s_exists
       THEN /\ s_pc' = "done"
            /\ s_day' = s_day
       ELSE /\ s_pc' = "rglob"
            /\ s_day' = 1
    /\ UNCHANGED <<store, s_exists, s_today, s_pending, deleted, s_before,
                   s_failed>>

\* `for p in jsonld_dir.rglob(f"*{suffix}")` for the day at s_day
sweep_rglob ==
    /\ UNCHANGED notSweep
    /\ s_pc = "rglob"
    /\ s_pending' = rglob_suffix(store, week[s_day])
    /\ s_pc' = "unlink"
    /\ UNCHANGED <<store, s_exists, s_today, week, s_day, deleted, s_before,
                   s_failed>>

\* where the inner loop goes after p.unlink(): `except Exception` prints
\* "Could not delete" and the loop takes the next path
AfterUnlinkFatal(ok) == IF ok THEN "unlink" ELSE "done"
AfterUnlink(ok) == "unlink"

\* the body of the inner loop for the next path: p.unlink(), which raises
\* for a path that cannot be removed; after the last path, the next day
sweep_unlink ==
    /\ UNCHANGED notSweep
    /\ s_pc = "unlink"
    /\ IF s_pending = {}
       THEN /\ IF s_day < Len(week)
               THEN s_day' = s_day + 1 /\ s_pc' = "rglob"
               ELSE s_day' = s_day /\ s_pc' = "done"
            /\ UNCHANGED <<store, s_pending, deleted, s_failed>>
       ELSE \E f \in s_pending :
            /\ s_pending' = s_pending \ {f}
            /\ IF f.shape.locked
               THEN /\ s_failed' = s_failed \cup {f}
                    /\ UNCHANGED <<store, deleted>>
               ELSE /\ store' = store \ {f}
                    /\ deleted' = deleted + 1
                    /\ UNCHANGED s_failed
            /\ s_pc' = AfterUnlink(~f.shape.locked)
            /\ UNCHANGED s_day
    /\ UNCHANGED <<s_exists, s_today, week, s_before>>

SweepNext ==
    \/ cleanup_main
    \/ sweep_rglob
    \/ sweep_unlink

(***************************************************************************)
(*                 THE WEEKLY JOB OVER THE CALENDAR                         *)
(***************************************************************************)
\* ROOT and PYSCRIPTS_DIR of tasks.py, and the directory of each script
ROOT == "code/python"
PYSCRIPTS_DIR == "pyscripts"
ScriptDir ==
    [s \in {"fetch_menu.py", "nutrislice_to_jsonld.py",
            "cleanup_jsonld_week.py", "load_today_to_qdrant.py"} |->
        IF s = "cleanup_jsonld_week.py" THEN "code/python/automation"
        ELSE IF s = "load_today_to_qdrant.py" THEN "code/python"
        ELSE "pyscripts"]
\* run(cmd, cwd): `python <script>` started in cwd finds the script or
\* exits with code 2
ScriptFound(script, cwd) == ScriptDir[script] = cwd

\* the canonical files nutrislice_to_jsonld.py writes, flat under
\* JSONLD_DIR: "<hall>_<meal>_<section>_<menu_date>.jsonld"
Canonical(d) ==
    SweepFile([depth |-> 0, sep |-> "_", ext |-> "jsonld", locked |-> FALSE], d)
\* the days of the weekly dump of the Sunday on or before d
DumpDays(d) == {sunday_of(d) + k : k \in 0..6}
\* what one run of the Canonicalizer writes: nothing (no raw file of this
\* Sunday), a file for every day of the week, and also a file for a day
\* without a date
CanonOutputs(d) ==
    {{}, {Canonical(x) : x \in DumpDays(d)},
     {Canonical(x) : x \in DumpDays(d) \cup {UnknownDate}}}

\* the first Sunday of the calendar: an empty canonical store, no job yet
WeeklyInit ==
    /\ now = 7
    /\ w_pc = "idle"
    /\ w_exit = -1
    /\ w_stages = <<>>
    /\ w_ran = FALSE
    /\ w_missed = FALSE

\* the next day begins
tick ==
    /\ UNCHANGED notWeekly
    /\ w_pc = "idle"
    /\ now < MaxSweepDay
    /\ now' = now + 1
    /\ IF weekday(now') = 6
       THEN /\ w_ran' = FALSE
            /\ w_missed' = (w_missed \/ ~w_ran)
       ELSE UNCHANGED <<w_ran, w_missed>>
    /\ UNCHANGED <<store, w_pc, w_exit, w_stages>>

\* the scheduler starts `python tasks.py weekly`
weekly ==
    /\ UNCHANGED notWeekly
    /\ w_pc = "idle"
    /\ w_pc' = "fetch"
    /\ w_ran' = TRUE
    /\ w_stages' = <<>>
    /\ UNCHANGED <<store, now, w_exit, w_missed>>

\* a stage ended with a non-zero code: run re-raises CalledProcessError and
\* tasks.py exits with code 1
WeeklyFails ==
    /\ w_pc' = "idle"
    /\ w_exit' = 1
    /\ UNCHANGED w_stages

\* a stage ended with code 0 and the job goes on at position pc
StageDone(stage, pc) ==
    /\ w_pc' = pc
    /\ w_stages' = Append(w_stages, stage)

\* run(["python", "fetch_menu.py"], cwd=PYSCRIPTS_DIR)
weekly_fetch(ok) ==
    /\ UNCHANGED notWeekly
    /\ w_pc = "fetch"
    /\ IF ScriptFound("fetch_menu.py", PYSCRIPTS_DIR) /\ ok
       THEN StageDone("fetch", "canon") /\ UNCHANGED w_exit
       ELSE WeeklyFails
    /\ UNCHANGED <<store, now, w_ran, w_missed>>

\* run(["python", "nutrislice_to_jsonld.py"], cwd=PYSCRIPTS_DIR): the files
\* it has written stay when it ends with a non-zero code
weekly_canon(out, ok) ==
    /\ UNCHANGED notWeekly
    /\ w_pc = "canon"
    /\ IF ScriptFound("nutrislice_to_jsonld.py", PYSCRIPTS_DIR)
       THEN /\ store' = store \cup out
            /\ IF ok THEN StageDone("canon", "cleanup") /\ UNCHANGED w_exit
                     ELSE WeeklyFails
       ELSE /\ UNCHANGED store
            /\ WeeklyFails
    /\ UNCHANGED <<now, w_ran, w_missed>>

\* run(["python", "cleanup_jsonld_week.py"]), started in ROOT; swept is what
\* the Sweeper leaves of the store when the script is found and runs
weekly_cleanup(swept) ==
    /\ UNCHANGED notWeekly
    /\ w_pc = "cleanup"
    /\ IF ScriptFound("cleanup_jsonld_week.py", ROOT)
       THEN /\ store' = swept
            /\ StageDone("cleanup", "idle")
            /\ w_exit' = 0
       ELSE /\ UNCHANGED store
            /\ WeeklyFails
    /\ UNCHANGED <<now, w_ran, w_missed>>

\* the store after a whole run of the Sweeper on day d with no unlink refused
Swept(dir, d) ==
    dir \ UNION {rglob_suffix(dir, (sunday_of(d) - 7) + k) : k \in 0..6}

WeeklyNext ==
    \/ tick
    \/ weekly
    \/ \E ok \in BOOLEAN : weekly_fetch(ok)
    \/ \E out \in CanonOutputs(now), ok \in BOOLEAN : weekly_canon(out, ok)
    \/ weekly_cleanup(Swept(store, now))

(***************************************************************************)
(*              THE CANONICALIZER: ITEMS OF A SECTION                       *)
(***************************************************************************)
\* A text is a sequence of tokens: the letter g in both cases, a space, the
\* digit 1, and the words oz and customer, the latter in two spellings.
LowerTok(c) ==
    CASE c = "G" -> "g"
      [] c = "OZ" -> "oz"
      [] c = "Customer" -> "customer"
      [] OTHER -> c
\* str.lower
Lower(s) == [k \in DOMAIN s |-> LowerTok(s[k])]
\* str.strip: the text without its leading and trailing spaces
RECURSIVE lstrip(_)
lstrip(s) == IF s # <<>> /\ Head(s) = " " THEN lstrip(Tail(s)) ELSE s
RECURSIVE rstrip(_)
rstrip(s) ==
    IF s # <<>> /\ s[Len(s)] = " " THEN rstrip(SubSeq(s, 1, Len(s) - 1)) ELSE s
strip(s) == rstrip(lstrip(s))
\* `word in text`
Contains(s, word) == \E k \in DOMAIN s : s[k] = word

\* the inputs: section names (the empty one is falsy), and the fields of a
\* raw item of the section
SectionNames == {<<>>, <<"g">>, <<"G", " ">>, <<" ">>}
FoodNames == {<<"G">>, <<" ", "g">>, <<"1">>}
Amounts == {<<>>, <<"1">>}
Units == {<<"oz", " ">>, <<"Customer">>}
RawItems ==
    [is_section_title : BOOLEAN, name : FoodNames,
     serving_size_amount : Amounts, serving_size_unit : Units]
MaxSectionItems == 3

\* serving_txt: empty without an amount, else "<amount> <unit stripped>",
\* stripped
serving_text(itm) ==
    IF itm.serving_size_amount = <<>> THEN <<>>
    ELSE strip(itm.serving_size_amount \o <<" ">> \o strip(itm.serving_size_unit))
\* the test of a station/header row, without folding the case
is_header_exact(food_name, section_name) == food_name = strip(section_name)
\* the test of a station/header row
is_header(food_name, section_name) ==
    Lower(food_name) = Lower(strip(section_name))
\* the test of the exclusion marker
has_marker(serving_txt) == Contains(Lower(serving_txt), "customer")
\* the MenuItem built of a raw item
MenuItem(itm) == [name |-> strip(itm.name), servingSize |-> serving_text(itm)]

CanonInit ==
    /\ c_pc = "section"
    /\ c_section = <<>>
    /\ c_items = <<>>
    /\ c_n = 0
    /\ c_skips = {}

\* `for menu_id, meta in sections_info.items()`: a section without a name
\* is passed over, as is one without items (has_items FALSE)
canon_section(section_name, has_items) ==
    /\ UNCHANGED notCanon
    /\ c_pc \in {"section", "appended"}
    /\ c_section' = section_name
    /\ c_items' = <<>>
    /\ c_n' = 0
    /\ c_skips' = {}
    /\ c_pc' = IF section_name = <<>> \/ ~has_items THEN "section" ELSE "items"

\* one turn of `for itm in items`, preceded by the bucketing that drops the
\* section titles
canon_item(itm) ==
    /\ UNCHANGED notCanon
    /\ c_pc = "items"
    /\ c_n < MaxSectionItems
    /\ c_n' = c_n + 1
    /\ LET food_name == strip(itm.name)
           serving_txt == serving_text(itm)
       IN  IF itm.is_section_title
           THEN /\ c_skips' = c_skips \cup {"title"}
                /\ UNCHANGED c_items
           ELSE IF is_header(food_name, c_section)
           THEN /\ c_skips' = c_skips \cup
                        {IF itm.name = c_section THEN "name" ELSE "folded_name"}
                /\ UNCHANGED c_items
           ELSE IF has_marker(serving_txt)
           THEN /\ c_skips' = c_skips \cup {"customer"}
                /\ UNCHANGED c_items
           ELSE /\ c_items' = Append(c_items, MenuItem(itm))
                /\ UNCHANGED c_skips
    /\ UNCHANGED <<c_pc, c_section>>

\* outputs.append((menu_obj, fname)) after the last item of a section that
\* has an item which is not a section title
canon_append ==
    /\ UNCHANGED notCanon
    /\ c_pc = "items"
    /\ c_n >= 1
    /\ c_skips # {"title"} \/ c_items # <<>>
    /\ c_pc' = "appended"
    /\ UNCHANGED <<c_section, c_items, c_n, c_skips>>

CanonNext ==
    \/ \E s \in SectionNames, b \in BOOLEAN : canon_section(s, b)
    \/ \E itm \in RawItems : canon_item(itm)
    \/ canon_append

(***************************************************************************)
(*            THE CANONICALIZER: FILES OF A RAW WEEK                         *)
(***************************************************************************)
\* hall_slug and meal_type as main splits them off the stem of a raw file:
\* they hold no underscore
HallMeals == {<<"gordon", "lunch">>, <<"gordon", "dinner">>, <<"liz", "lunch">>}
\* the dates of the days of a payload
MenuDates == {"2025-08-03", "2025-08-04"}
\* the keys of menu_info
MenuIds == {1, 2}
\* display names of sections, as texts of tokens
DisplayNames == {<<"G", " ", "g">>, <<"g", "_", "g">>, <<"g">>}
\* what tells one document from another: payload, day and section
DocKey(d) == <<d.hall, d.meal, d.date, d.menu_id>>
Documents ==
    {[hall |-> hm[1], meal |-> hm[2], date |-> dt, menu_id |-> id,
      section |-> nm] :
        hm \in HallMeals, dt \in MenuDates, id \in MenuIds, nm \in DisplayNames}
MaxDocs == 2
MaxCanonRuns == 2
\* the lists of documents of one raw week: no two of one section
RawWeeks ==
    {w \in SeqsUpTo(Documents, MaxDocs) :
        \A a, b \in DOMAIN w : a # b => DocKey(w[a]) # DocKey(w[b])}

\* str.replace(' ', '_')
ReplaceSpaces(s) == [k \in DOMAIN s |-> IF s[k] = " " THEN "_" ELSE s[k]]
\* fname: "<hall>_<meal>_<section, spaces replaced, lower case>_<date>.jsonld"
fname(d) ==
    <<d.hall, "_", d.meal, "_">> \o Lower(ReplaceSpaces(d.section))
        \o <<"_", d.date, ".jsonld">>
\* out_path.write_text in a mode that adds to an existing file
write_text_append(dir, name, text) ==
    IF \E f \in dir : f.name = name
    THEN {IF f.name = name THEN [f EXCEPT !.text = @ \o text] ELSE f : f \in dir}
    ELSE dir \cup {[name |-> name, text |-> text]}
\* out_path.write_text: the file is created, or truncated and written anew
write_text(dir, name, text) ==
    {f \in dir : f.name # name} \cup {[name |-> name, text |-> text]}

JsonldInit ==
    /\ j_raw \in RawWeeks
    /\ j_store = {}
    /\ j_pc = "idle"
    /\ j_i = 1
    /\ j_runs = 0
    /\ j_first = {}

\* `python nutrislice_to_jsonld.py` starts on the same raw week
jsonld_main ==
    /\ UNCHANGED notJsonld
    /\ j_pc = "idle"
    /\ j_runs < MaxCanonRuns
    /\ j_pc' = "run"
    /\ j_i' = 1
    /\ UNCHANGED <<j_raw, j_store, j_runs, j_first>>

\* one turn of `for menu_obj, fname in transform_menu(...)`: the document
\* is written under its file name
jsonld_write ==
    /\ UNCHANGED notJsonld
    /\ j_pc = "run"
    /\ j_i <= Len(j_raw)
    /\ j_store' = write_text(j_store, fname(j_raw[j_i]), <<j_raw[j_i]>>)
    /\ j_i' = j_i + 1
    /\ UNCHANGED <<j_raw, j_pc, j_runs, j_first>>

\* main returns after the last raw file
jsonld_exit ==
    /\ UNCHANGED notJsonld
    /\ j_pc = "run"
    /\ j_i > Len(j_raw)
    /\ j_pc' = "idle"
    /\ j_runs' = j_runs + 1
    /\ j_first' = IF j_runs = 0 THEN j_store ELSE j_first
    /\ UNCHANGED <<j_raw, j_store, j_i>>

JsonldNext ==
    \/ jsonld_main
    \/ jsonld_write
    \/ jsonld_exit

JsonldIdle ==
    /\ j_raw = <<>>
    /\ j_store = {}
    /\ j_pc = "idle"
    /\ j_i = 1
    /\ j_runs = 0
    /\ j_first = {}

(***************************************************************************)
(*              THE CANONICALIZER: SERVING WEIGHT                            *)
(***************************************************************************)
\* An optional number is <<>> (None, or a text that is no number) or <<n>>.
\* Ounces are counted in tenths of an ounce, grams in tenths of a gram.
MaxOzTenths == 25
\* 28.3495 g/oz in ten-thousandths
OzFactor == 283495
OzScale == 10000
\* serving_size_grams: absent, zero, and two weights
GramValues == {<<>>, <<0>>, <<567>>, <<850>>}
\* serving_size_amount: no number, or a number of tenths of an ounce
AmountValues == {<<>>} \cup {<<n>> : n \in 0..MaxOzTenths}
\* serving_size_unit
UnitValues == {<<>>, <<"oz">>, <<"OZ">>, <<"oz", " ">>, <<" ", "oz">>, <<"g">>}
Sizes ==
    [serving_size_grams : GramValues, serving_size_amount : AmountValues,
     serving_size_unit : UnitValues]
\* truth value of None and of a number
Truthy(x) == x # <<>> /\ x[1] # 0
\* str.startswith("oz")
StartsWithOz(s) == s # <<>> /\ s[1] = "oz"
\* round(x, 1) of x = n / d tenths: the nearest tenth, a tie to the even one
RoundDiv(n, d) ==
    LET q == n \div d
        r == n % d
    IN  IF 2 * r < d THEN q
        ELSE IF 2 * r > d THEN q + 1
        ELSE IF q % 2 = 0 THEN q ELSE q + 1
\* a conversion that cuts the product off after the first decimal
oz_to_g_truncated(oz) ==
    IF oz = <<>> THEN <<>> ELSE <<(oz[1] * OzFactor) \div OzScale>>
\* oz_to_g: None when float(oz) raises
oz_to_g(oz) ==
    IF oz = <<>> THEN <<>> ELSE <<RoundDiv(oz[1] * OzFactor, OzScale)>>
\* grams as transform_menu settles it, and the servingWeight it sets
serving_weight(size) ==
    LET unit == size.serving_size_unit
        grams ==
            IF ~Truthy(size.serving_size_grams) /\ unit # <<>>
               /\ StartsWithOz(Lower(unit))
            THEN oz_to_g(size.serving_size_amount)
            ELSE size.serving_size_grams
    IN  IF Truthy(grams) THEN grams ELSE <<>>

\* an item of the payload, its MenuItem not yet built
ServingInit ==
    /\ sw_size \in Sizes
    /\ sw_built = FALSE
    /\ sw_out = <<>>

\* the MenuItem of the item is built
serving_item ==
    /\ UNCHANGED notServing
    /\ ~sw_built
    /\ sw_built' = TRUE
    /\ sw_out' = serving_weight(sw_size)
    /\ UNCHANGED sw_size

ServingNext == serving_item

ServingIdle ==
    /\ sw_size = [serving_size_grams |-> <<>>, serving_size_amount |-> <<0>>,
                  serving_size_unit |-> <<>>]
    /\ sw_built = FALSE
    /\ sw_out = <<>>

(***************************************************************************)
(*                  THE DAILY JOB OVER THE CALENDAR                          *)
(***************************************************************************)
\* the exit codes of the Loader: 0, 1 (sys.exit(1)) and 2 (argparse)
LoaderExitCodes == {0, 1, 2}
\* the command line daily builds for the Loader
LoaderCommand(td, yd) ==
    [script |-> "load_today_to_qdrant.py", cwd |-> ROOT, today |-> td,
     yesterday |-> yd]

DailyInit ==
    /\ d_now = 2
    /\ d_env \in SUBSET required_vars
    /\ d_pc = "idle"
    /\ d_cmds = <<>>
    /\ d_sitetags = <<>>
    /\ d_exit = -1

\* the next day begins
daily_tick ==
    /\ UNCHANGED notDaily
    /\ d_pc = "idle"
    /\ d_now < MaxSweepDay
    /\ d_now' = d_now + 1
    /\ UNCHANGED <<d_env, d_pc, d_cmds, d_sitetags, d_exit>>

\* `python tasks.py daily` up to the call of run: SystemExit(1) when a
\* required variable is missing or the Loader script is not in ROOT; else
\* today, yesterday and the two sitetags are set
daily_start ==
    /\ UNCHANGED notDaily
    /\ d_pc = "idle"
    /\ d_cmds' = <<>>
    /\ IF Missing(d_env) # {}
       THEN /\ d_exit' = 1
            /\ UNCHANGED <<d_pc, d_sitetags>>
       ELSE /\ d_sitetags' = <<d_now, YesterdayOf(d_now)>>
            /\ IF ScriptFound("load_today_to_qdrant.py", ROOT)
               THEN d_pc' = "run" /\ UNCHANGED d_exit
               ELSE d_exit' = 1 /\ UNCHANGED d_pc
    /\ UNCHANGED <<d_now, d_env>>

\* run(["python", "load_today_to_qdrant.py", "--today", ..., "--yesterday",
\* ...]): the Loader ends with the exit code `code`
daily_run(code) ==
    /\ UNCHANGED notDaily
    /\ d_pc = "run"
    /\ d_cmds' = Append(d_cmds, LoaderCommand(d_sitetags[1], d_sitetags[2]))
    /\ d_exit' = IF code = 0 THEN 0 ELSE 1
    /\ d_pc' = "idle"
    /\ UNCHANGED <<d_now, d_env, d_sitetags>>

DailyNext ==
    \/ daily_tick
    \/ daily_start
    \/ \E code \in LoaderExitCodes : daily_run(code)

DailyIdle ==
    /\ d_now = 2
    /\ d_env = required_vars
    /\ d_pc = "idle"
    /\ d_cmds = <<>>
    /\ d_sitetags = <<>>
    /\ d_exit = -1

(***************************************************************************)
(*                    THE ANALYTICS MIDDLEWARE                               *)
(***************************************************************************)
\* str.startswith over texts kept as sequences of tokens
startswith(s, prefix) ==
    /\ Len(prefix) <= Len(s)
    /\ SubSeq(s, 1, Len(prefix)) = prefix

\* the request paths of the model
Paths ==
    {<<"/">>, <<"/", "ask">>, <<"/", "ask", "ing">>, <<"/", "api">>,
     <<"/", "api", "/", "x">>, <<"/", "health">>, <<"/", "error">>}
Methods == {"GET", "POST"}
\* what `await handler(request)` does: it returns a response, or raises an
\* exception of a class under Exception, or one outside it (CancelledError
\* derives from BaseException)
HandlerOutcomes == {"response", "Exception", "HTTPNotFound", "CancelledError"}
\* the classes `except Exception` catches
UnderExceptionNone(e) == FALSE
UnderException(e) == e \in {"Exception", "HTTPNotFound"}

\* the condition guarding log_page_view
TracksPageView(req) ==
    /\ req.method = "GET"
    /\ ~startswith(req.path, <<"/", "ask">>)
    /\ ~startswith(req.path, <<"/", "api", "/">>)
    /\ ~startswith(req.path, <<"/", "health">>)

NoResponse == [kind |-> "none", status |-> 0, exc |-> "none"]
ResponseOf(s) == [kind |-> "response", status |-> s, exc |-> "none"]
ExceptionOf(e) == [kind |-> "exception", status |-> 0, exc |-> e]

MiddlewareInit ==
    /\ mw_request \in [method : Methods, path : Paths]
    /\ mw_handler \in HandlerOutcomes
    /\ mw_slow \in BOOLEAN
    /\ mw_pc = "handler"
    /\ mw_pending = NoResponse
    /\ mw_events = <<>>
    /\ mw_warned = FALSE

\* `response = await handler(request)` inside the try block
mw_handle ==
    /\ UNCHANGED notMiddleware
    /\ mw_pc = "handler"
    /\ IF mw_handler = "response"
       THEN /\ mw_pending' = ResponseOf(200)
            /\ mw_pc' = "track"
       ELSE /\ mw_pending' = ExceptionOf(mw_handler)
            /\ mw_pc' = IF UnderException(mw_handler) THEN "except"
                        ELSE "finally"
    /\ UNCHANGED <<mw_request, mw_handler, mw_slow, mw_events, mw_warned>>

\* the page view of a GET request outside /ask, /api/ and /health
mw_track ==
    /\ UNCHANGED notMiddleware
    /\ mw_pc = "track"
    /\ mw_events' = IF TracksPageView(mw_request)
                    THEN Append(mw_events, "page_view")
                    ELSE mw_events
    /\ mw_pc' = "finally"
    /\ UNCHANGED <<mw_request, mw_handler, mw_slow, mw_pending, mw_warned>>

\* `except Exception as e`: a 500 JSON response is built, the error is
\* logged, and the response is returned
mw_except ==
    /\ UNCHANGED notMiddleware
    /\ mw_pc = "except"
    /\ mw_pending' = ResponseOf(500)
    /\ mw_events' = Append(mw_events, "error")
    /\ mw_pc' = "finally"
    /\ UNCHANGED <<mw_request, mw_handler, mw_slow, mw_warned>>

\* `finally`: the slow-request warning; then the pending response is
\* returned or the pending exception goes on to the caller
mw_finally ==
    /\ UNCHANGED notMiddleware
    /\ mw_pc = "finally"
    /\ mw_warned' = mw_slow
    /\ mw_pc' = IF mw_pending.kind = "response" THEN "returned"
                ELSE "propagated"
    /\ UNCHANGED <<mw_request, mw_handler, mw_slow, mw_pending, mw_events>>

MiddlewareNext ==
    \/ mw_handle
    \/ mw_track
    \/ mw_except
    \/ mw_finally

MiddlewareIdle ==
    /\ mw_request = [method |-> "GET", path |-> <<"/">>]
    /\ mw_handler = "response"
    /\ mw_slow = FALSE
    /\ mw_pc = "handler"
    /\ mw_pending = NoResponse
    /\ mw_events = <<>>
    /\ mw_warned = FALSE

(***************************************************************************)
(*          A LOADER RUN THAT ABORTS AND THE RUN THAT FOLLOWS IT            *)
(***************************************************************************)
\* file_doc_id of file k: the stem, which file 2 shares with file 1 when
\* the two differ only in folder and extension
resume_doc_id(k) == IF r_twin /\ k = 2 THEN 1 ELSE k

\* what the vector service does in one iteration
ResumeOutcomes == {"ok", "count_error", "upsert_error"}

\* qd.upsert(points=pts) over the per-doc_id counts
ResumeUpsert(pf, staged) ==
    [d \in DOMAIN pf |->
        pf[d] + Cardinality({k \in staged : resume_doc_id(k) = d})]

\* main after `files = list(...)` of the first run; every file parses, has
\* text and is embedded; the partition of the date is empty
ResumeInit ==
    /\ r_files \in 1..MaxBatchFiles
    /\ r_twin \in BOOLEAN
    /\ r_run = 1
    /\ r_idx = 1
    /\ r_pts = {}
    /\ r_points = [d \in 1..r_files |-> 0]
    /\ r_pc = "loop"

\* position after the file at r_idx
ResumeAdvance ==
    /\ r_idx' = r_idx + 1
    /\ r_pc' = IF r_idx < r_files THEN "loop" ELSE "flush"

\* one iteration of `for fp in files`: the existence check, pts.append, and
\* the upsert of a full batch
resume_file(o) ==
    /\ UNCHANGED notResume
    /\ r_pc = "loop"
    /\ LET staged == r_pts \cup {r_idx} IN
       IF o = "count_error"
       THEN \* qd.count raises: nothing catches it
            /\ r_pc' = "aborted"
            /\ UNCHANGED <<r_idx, r_pts, r_points>>
       ELSE IF r_points[resume_doc_id(r_idx)] > 0
       THEN \* skip_existing
            /\ ResumeAdvance
            /\ UNCHANGED <<r_pts, r_points>>
       ELSE IF ~BatchFull(Cardinality(staged))
       THEN /\ r_pts' = staged
            /\ ResumeAdvance
            /\ UNCHANGED r_points
       ELSE IF o = "upsert_error"
       THEN \* the batch upsert raises: nothing catches it
            /\ r_pts' = staged
            /\ r_pc' = "aborted"
            /\ UNCHANGED <<r_idx, r_points>>
       ELSE /\ r_points' = ResumeUpsert(r_points, staged)
            /\ r_pts' = {}
            /\ ResumeAdvance
    /\ UNCHANGED <<r_files, r_twin, r_run>>

\* after the loop: `if pts: qd.upsert(...)`
resume_flush(ok) ==
    /\ UNCHANGED notResume
    /\ r_pc = "flush"
    /\ IF r_pts = {}
       THEN /\ r_pc' = "done"
            /\ UNCHANGED <<r_pts, r_points>>
       ELSE IF ok
       THEN /\ r_points' = ResumeUpsert(r_points, r_pts)
            /\ r_pts' = {}
            /\ r_pc' = "done"
       ELSE /\ r_pc' = "aborted"
            /\ UNCHANGED <<r_pts, r_points>>
    /\ UNCHANGED <<r_files, r_twin, r_run, r_idx>>

\* the aborted process is gone (its pts with it) and the Loader is started
\* again for the same date over the same files
resume_restart ==
    /\ UNCHANGED notResume
    /\ r_pc = "aborted"
    /\ r_run = 1
    /\ r_run' = 2
    /\ r_idx' = 1
    /\ r_pts' = {}
    /\ r_pc' = "loop"
    /\ UNCHANGED <<r_files, r_twin, r_points>>

ResumeNext ==
    \/ \E o \in ResumeOutcomes : resume_file(o)
    \/ \E ok \in BOOLEAN : resume_flush(ok)
    \/ resume_restart

ResumeIdle ==
    /\ r_files = 1
    /\ r_twin = FALSE
    /\ r_run = 1
    /\ r_idx = 1
    /\ r_pts = {}
    /\ r_points = [d \in 1..1 |-> 0]
    /\ r_pc = "loop"

(***************************************************************************)
(*        ENTITY AND MEAL THROUGH THE NAMES OF RAW AND CANONICAL FILES      *)
(***************************************************************************)
\* entity slugs and meal types a .env may list, as texts of tokens
Slugs == {<<"gordon">>, <<"rhetas", "-", "market">>, <<"four", "_", "lakes">>}
MealTypes == {<<"lunch">>, <<"late", "-", "night">>, <<"late", "_", "night">>}
\* the Sunday of the week the Fetcher runs in
FetchSunday == "2025-08-03"

\* str.split(sep): the list of the parts between the separators
RECURSIVE split_from(_, _, _)
split_from(s, sep, part) ==
    IF s = <<>> THEN <<part>>
    ELSE IF Head(s) = sep THEN <<part>> \o split_from(Tail(s), sep, <<>>)
    ELSE split_from(Tail(s), sep, Append(part, Head(s)))
split(s, sep) == split_from(s, sep, <<>>)

\* Path.stem and name.rsplit(".", 1)[0]: the name without its extension,
\* which is the last token of the texts of the model
stem(name) == SubSeq(name, 1, Len(name) - 1)

\* fetch: f"{slug}_{meal}_{sunday}.json"
raw_name(slug, meal, sunday) ==
    slug \o <<"_">> \o meal \o <<"_", sunday, ".json">>
\* transform_menu: f"{hall_slug}_{meal_type}_{section}_{menu_date}.jsonld"
canon_name(hall, meal, section, d) ==
    hall \o <<"_">> \o meal \o <<"_">> \o Lower(ReplaceSpaces(section))
        \o <<"_", d, ".jsonld">>

NoName == <<>>
NoParts == [hall |-> <<>>, meal |-> <<>>]
NoPayload == [site |-> <<>>, meal |-> <<>>]

NamesInit ==
    /\ n_slug \in Slugs
    /\ n_meal \in MealTypes
    /\ n_section \in DisplayNames
    /\ n_date \in MenuDates
    /\ n_pc = "fetch"
    /\ n_raw = NoName
    /\ n_hall = NoParts
    /\ n_canon = NoName
    /\ n_payload = NoPayload

\* fetch of an open hall: out = folder / f"{slug}_{meal}_{sunday}.json"
names_fetch ==
    /\ UNCHANGED notNames
    /\ n_pc = "fetch"
    /\ n_raw' = raw_name(n_slug, n_meal, FetchSunday)
    /\ n_pc' = "canon"
    /\ UNCHANGED <<n_slug, n_meal, n_section, n_date, n_hall, n_canon, n_payload>>

\* main of the Canonicalizer for that raw file: parts = stem.split("_"),
\* hall_slug, meal_type = parts[0], parts[1], and the file of one section
names_canon ==
    /\ UNCHANGED notNames
    /\ n_pc = "canon"
    /\ LET parts == split(stem(n_raw), "_") IN
       IF Len(parts) < 3
       THEN /\ n_pc' = "skipped"
            /\ UNCHANGED <<n_hall, n_canon>>
       ELSE /\ n_hall' = [hall |-> parts[1], meal |-> parts[2]]
            /\ n_canon' = canon_name(parts[1], parts[2], n_section, n_date)
            /\ n_pc' = "load"
    /\ UNCHANGED <<n_slug, n_meal, n_section, n_date, n_raw, n_payload>>

\* the Loader for that canonical file: name = fp.name.rsplit(".", 1)[0],
\* parts = name.split("_"), site = parts[0], meal = parts[1]
names_load ==
    /\ UNCHANGED notNames
    /\ n_pc = "load"
    /\ LET parts == split(stem(n_canon), "_") IN
       n_payload' = [site |-> IF Len(parts) > 0 THEN parts[1] ELSE <<>>,
                     meal |-> IF Len(parts) > 1 THEN parts[2] ELSE <<>>]
    /\ n_pc' = "loaded"
    /\ UNCHANGED <<n_slug, n_meal, n_section, n_date, n_raw, n_hall, n_canon>>

NamesNext ==
    \/ names_fetch
    \/ names_canon
    \/ names_load

NamesIdle ==
    /\ n_slug = <<"gordon">>
    /\ n_meal = <<"lunch">>
    /\ n_section = <<"g">>
    /\ n_date = "2025-08-03"
    /\ n_pc = "fetch"
    /\ n_raw = NoName
    /\ n_hall = NoParts
    /\ n_canon = NoName
    /\ n_payload = NoPayload

(***************************************************************************)
(*             THE WEEK START OF THE THREE WEEKLY PROGRAMS                  *)
(***************************************************************************)
\* fetch_menu.py: sunday = today - timedelta(days=(today.weekday()+1) % 7)
sunday(d) == d - ((weekday(d) + 1) % 7)
\* nutrislice_to_jsonld.py, last_sunday: d - timedelta(days=(d.weekday() + 1) % 7)
last_sunday_no_mod(d) == d - (weekday(d) + 1)
last_sunday(d) == d - ((weekday(d) + 1) % 7)

\* a week start that has not been computed; a computed one is <<day>>
NotComputed == <<>>

WeekStartInit ==
    /\ ws_d \in SweepDays
    /\ ws_fetcher = NotComputed
    /\ ws_canon = NotComputed
    /\ ws_sweeper = NotComputed
    /\ ws_window = <<>>

\* the module body of fetch_menu.py on day ws_d
weekstart_fetch ==
    /\ UNCHANGED notWeekStart
    /\ ws_fetcher = NotComputed
    /\ ws_fetcher' = <<sunday(ws_d)>>
    /\ UNCHANGED <<ws_d, ws_canon, ws_sweeper, ws_window>>

\* main of nutrislice_to_jsonld.py on day ws_d: last_sunday(date.today())
weekstart_canon ==
    /\ UNCHANGED notWeekStart
    /\ ws_canon = NotComputed
    /\ ws_canon' = <<last_sunday(ws_d)>>
    /\ UNCHANGED <<ws_d, ws_fetcher, ws_sweeper, ws_window>>

\* main of cleanup_jsonld_week.py on day ws_d: sunday_of(today), and
\* week = [last_sunday + timedelta(days=i) for i in range(7)] with
\* last_sunday = sunday_of(today) - timedelta(days=7)
weekstart_sweep ==
    /\ UNCHANGED notWeekStart
    /\ ws_sweeper = NotComputed
    /\ ws_sweeper' = <<sunday_of(ws_d)>>
    /\ ws_window' = [k \in 1..7 |-> (sunday_of(ws_d) - 7) + (k - 1)]
    /\ UNCHANGED <<ws_d, ws_fetcher, ws_canon>>

WeekStartNext ==
    \/ weekstart_fetch
    \/ weekstart_canon
    \/ weekstart_sweep

WeekStartIdle ==
    /\ ws_d = 1
    /\ ws_fetcher = NotComputed
    /\ ws_canon = NotComputed
    /\ ws_sweeper = NotComputed
    /\ ws_window = <<>>

(***************************************************************************)
(*                 USER AND SESSION IDS (analytics.py)                      *)
(***************************************************************************)
\* A cookie value or an id is the sequence of the parts of the text between
\* its "_" characters: "sess_1700000000" is <<Word("sess"), Num(1700000000)>>.
\* A part is a run of digits (int() reads it) or any other text (int()
\* raises ValueError).
Word(w) == [digits |-> FALSE, text |-> w, val |-> 0]
Num(n) == [digits |-> TRUE, text |-> "", val |-> n]

SESSION_TTL == 30 * 60
\* the requests one browser makes
MaxRequests == 3
\* the seconds between two requests: inside, at and over SESSION_TTL
Gaps == {1, SESSION_TTL, SESSION_TTL + 1}
\* a request carries the cookies of the previous response, no cookies, or
\* an ab_sid cookie that does not end in a number (a browser drops ab_sid
\* max_age = SESSION_TTL seconds after it was set; other clients keep it)
Carried == {"previous", "missing", "malformed"}
MalformedSids == {<<Word("garbage")>>, <<Word("sess"), Word("abc")>>}

\* sid.rsplit("_", 1)[-1]
rsplit_last(s) == s[Len(s)]
\* the session is still valid: int(...) does not raise and
\* `now - ts > SESSION_TTL` is false
StillValid(sid, at) ==
    /\ rsplit_last(sid).digits
    /\ ~(at - rsplit_last(sid).val > SESSION_TTL)
\* f"sess_{now}"
new_sid(at) == <<Word("sess"), Num(at)>>
\* f"ab_{uuid.uuid4().hex[:16]}": the k-th id made
new_uid(k) == <<Word("ab"), Word("uuid"), Num(k)>>
\* the session id get_or_set_ids returns for the ab_sid cookie c at `now`
session_id(c, at) ==
    IF c # <<>> /\ StillValid(c, at) THEN c ELSE new_sid(at)
\* f"{sid}_{now}"
sid_cookie(sid, at) == Append(sid, Num(at))

SessionInit ==
    /\ se_now = 0
    /\ se_n = 0
    /\ se_uuids = 0
    /\ se_jar_uid = <<>>
    /\ se_jar_sid = <<>>
    /\ se_carried = "missing"
    /\ se_gap = 0
    /\ se_uid = <<>>
    /\ se_sid = <<>>
    /\ se_prev_sid = <<>>

\* one request, `gap` seconds after the one before, with ab_uid = cu and
\* ab_sid = cs in request.cookies: the whole of get_or_set_ids
get_or_set_ids(gap, carried, cu, cs) ==
    /\ UNCHANGED notSession
    /\ se_n < MaxRequests
    /\ se_n' = se_n + 1
    /\ se_now' = se_now + gap
    /\ se_gap' = gap
    /\ se_carried' = carried
    /\ se_uuids' = IF cu = <<>> THEN se_uuids + 1 ELSE se_uuids
    /\ se_uid' = IF cu = <<>> THEN new_uid(se_uuids + 1) ELSE cu
    /\ se_prev_sid' = se_sid
    /\ se_sid' = session_id(cs, se_now')
    /\ se_jar_uid' = se_uid'
    /\ se_jar_sid' = sid_cookie(se_sid', se_now')

\* the request carries the cookies the previous response set
request_with_cookies(gap) ==
    /\ se_n >= 1
    /\ get_or_set_ids(gap, "previous", se_jar_uid, se_jar_sid)

\* the request carries no cookies (a first visit, or cleared cookies)
request_without_cookies(gap) ==
    /\ gap \in Gaps
    /\ get_or_set_ids(gap, "missing", <<>>, <<>>)

\* the request carries ab_uid and an ab_sid that does not end in a number
request_with_malformed_sid(gap, cs) ==
    /\ cs \in MalformedSids
    /\ get_or_set_ids(gap, "malformed", se_jar_uid, cs)

SessionNext ==
    \/ \E gap \in Gaps : request_with_cookies(gap)
    \/ \E gap \in Gaps : request_without_cookies(gap)
    \/ \E gap \in Gaps, cs \in MalformedSids : request_with_malformed_sid(gap, cs)

SessionIdle ==
    /\ se_now = 0
    /\ se_n = 0
    /\ se_uuids = 0
    /\ se_jar_uid = <<>>
    /\ se_jar_sid = <<>>
    /\ se_carried = "missing"
    /\ se_gap = 0
    /\ se_uid = <<>>
    /\ se_sid = <<>>
    /\ se_prev_sid = <<>>

\* the other component at rest, for the specification of one component
CanonIdle ==
    /\ c_pc = "section"
    /\ c_section = <<>>
    /\ c_items = <<>>
    /\ c_n = 0
    /\ c_skips = {}

OrchIdle ==
    /\ data_dir = [d \in OrchDates |-> 0]
    /\ loading_state = NoState
    /\ date = "2025-08-05"
    /\ successful_files = <<>>
    /\ failed_files = <<>>
    /\ total_files = 0
    /\ opc = "load_state"
    /\ files = <<>>
    /\ i = 0
    /\ attempt = 0
    /\ invocations = [f \in AllFiles |-> 0]
    /\ failures = [f \in AllFiles |-> 0]
    /\ delay = 0
    /\ outcome = "none"
    /\ interrupted_at = "none"
    /\ status = "none"
    /\ exit_code = -1
    /\ resumed = FALSE
    /\ runs = 1

LoaderIdle ==
    /\ jsonld_root = {}
    /\ coll_exists = FALSE
    /\ indexes = {}
    /\ points = EmptyBag
    /\ lpc = [p \in Procs |-> "idle"]
    /\ today = [p \in Procs |-> 0]
    /\ yesterday = [p \in Procs |-> 0]
    /\ run_files = [p \in Procs |-> <<>>]
    /\ idx = [p \in Procs |-> 0]
    /\ pts = [p \in Procs |-> <<>>]
    /\ log_delete = [p \in Procs |-> "none"]
    /\ created = [p \in Procs |-> 0]
    /\ retired = [p \in Procs |-> 0]
    /\ prior = [p \in Procs |-> "none"]
    /\ embed_failed = [p \in Procs |-> {}]
    /\ last_done = 0
    /\ last_clean = TRUE
    /\ last_today = 0
    /\ retire_missed = FALSE
    /\ log_loop = [p \in Procs |-> "none"]
    /\ env = required_vars

FetchIdle ==
    /\ raw_folder = {}
    /\ f_pc = [pr \in Pairs |-> "start"]
    /\ f_log = [pr \in Pairs |-> "none"]
    /\ f_main = "gather"
    /\ f_written = {}
    /\ f_seen = [pr \in Pairs |-> NotSeen]

SweepIdle ==
    /\ store = {}
    /\ s_exists = TRUE
    /\ s_today = MaxSweepDay
    /\ s_pc = "start"
    /\ week = <<>>
    /\ s_day = 0
    /\ s_pending = {}
    /\ deleted = 0
    /\ s_before = {}
    /\ s_failed = {}

WeeklyIdle ==
    /\ now = 7
    /\ w_pc = "idle"
    /\ w_exit = -1
    /\ w_stages = <<>>
    /\ w_ran = FALSE
    /\ w_missed = FALSE

BatchIdle ==
    /\ b_files = 1
    /\ b_idx = 1
    /\ b_pts = 0
    /\ b_pc = "loop"
    /\ b_staged = 0
    /\ b_upserted = 0
    /\ b_largest = 0

\* the Orchestrator alone
OrchSpecInit == OrchInit /\ LoaderIdle /\ BatchIdle /\ FetchIdle /\ SweepIdle
    /\ WeeklyIdle /\ CanonIdle
    /\ JsonldIdle
    /\ ServingIdle
    /\ DailyIdle
    /\ MiddlewareIdle
    /\ ResumeIdle
    /\ NamesIdle
    /\ WeekStartIdle
    /\ SessionIdle
OrchSpec == OrchSpecInit /\ [][OrchNext]_vars

\* the first, fresh run of the Orchestrator alone
FreshSpecInit == FreshInit /\ LoaderIdle /\ BatchIdle /\ FetchIdle /\ SweepIdle
    /\ WeeklyIdle /\ CanonIdle
    /\ JsonldIdle
    /\ ServingIdle
    /\ DailyIdle
    /\ MiddlewareIdle
    /\ ResumeIdle
    /\ NamesIdle
    /\ WeekStartIdle
    /\ SessionIdle
FreshSpec == FreshSpecInit /\ [][FreshNext]_vars

\* one run of the Orchestrator in which every step that can be taken is
\* taken in the end: a subprocess.run call returns or times out, a sleep
\* ends, the operator answers the prompt
RunSpecInit ==
    RunInit /\ BatchIdle /\ CanonIdle /\ DailyIdle /\ FetchIdle /\ JsonldIdle /\ LoaderIdle
    /\ MiddlewareIdle /\ ResumeIdle /\ ServingIdle /\ SweepIdle
    /\ WeeklyIdle /\ NamesIdle /\ WeekStartIdle /\ SessionIdle
RunFairSpec == RunSpecInit /\ [][RunNext]_vars /\ WF_vars(RunNext)

\* the Loader alone, its runs one after the other
LoaderSpecInit == LoaderInit /\ OrchIdle /\ BatchIdle /\ FetchIdle /\ SweepIdle
    /\ WeeklyIdle /\ CanonIdle
    /\ JsonldIdle
    /\ ServingIdle
    /\ DailyIdle
    /\ MiddlewareIdle
    /\ ResumeIdle
    /\ NamesIdle
    /\ WeekStartIdle
    /\ SessionIdle
LoaderSpec == LoaderSpecInit /\ [][LoaderNext]_vars

\* the Fetcher alone: one run of the script; the event loop runs every
\* coroutine that can take a step, and every request ends in a response or
\* in an exception (the session's default timeout)
FetchSpecInit == FetchInit /\ OrchIdle /\ LoaderIdle /\ BatchIdle /\ SweepIdle
    /\ WeeklyIdle /\ CanonIdle
    /\ JsonldIdle
    /\ ServingIdle
    /\ DailyIdle
    /\ MiddlewareIdle
    /\ ResumeIdle
    /\ NamesIdle
    /\ WeekStartIdle
    /\ SessionIdle
FetchSpec == FetchSpecInit /\ [][FetchNext]_vars
FetchFairSpec == FetchSpec /\ WF_vars(FetchNext)

\* the Retention Sweeper alone: one run of the script
SweepSpecInit ==
    SweepInit /\ OrchIdle /\ LoaderIdle /\ BatchIdle /\ FetchIdle /\ WeeklyIdle
    /\ CanonIdle
    /\ JsonldIdle
    /\ ServingIdle
    /\ DailyIdle
    /\ MiddlewareIdle
    /\ ResumeIdle
    /\ NamesIdle
    /\ WeekStartIdle
    /\ SessionIdle
SweepSpec == SweepSpecInit /\ [][SweepNext]_vars

\* the weekly job over three calendar weeks, on a store that starts empty
WeeklySpecInit ==
    WeeklyInit /\ SweepIdle /\ OrchIdle /\ LoaderIdle /\ BatchIdle /\ FetchIdle
    /\ CanonIdle
    /\ JsonldIdle
    /\ ServingIdle
    /\ DailyIdle
    /\ MiddlewareIdle
    /\ ResumeIdle
    /\ NamesIdle
    /\ WeekStartIdle
    /\ SessionIdle
WeeklySpec == WeeklySpecInit /\ [][WeeklyNext]_vars

\* the Canonicalizer building the documents of the sections of a raw menu
CanonSpecInit ==
    CanonInit /\ WeeklyIdle /\ SweepIdle /\ OrchIdle /\ LoaderIdle /\ BatchIdle
    /\ FetchIdle
    /\ JsonldIdle
    /\ ServingIdle
    /\ DailyIdle
    /\ MiddlewareIdle
    /\ ResumeIdle
    /\ NamesIdle
    /\ WeekStartIdle
    /\ SessionIdle
CanonSpec == CanonSpecInit /\ [][CanonNext]_vars

\* the upsert loop alone
BatchSpecInit == BatchInit /\ OrchIdle /\ LoaderIdle /\ FetchIdle /\ SweepIdle
    /\ WeeklyIdle /\ CanonIdle
    /\ JsonldIdle
    /\ ServingIdle
    /\ DailyIdle
    /\ MiddlewareIdle
    /\ ResumeIdle
    /\ NamesIdle
    /\ WeekStartIdle
    /\ SessionIdle
BatchSpec == BatchSpecInit /\ [][BatchNext]_vars

\* the requests of one browser to the analytics cookies
SessionSpecInit ==
    SessionInit /\ BatchIdle /\ CanonIdle /\ DailyIdle /\ FetchIdle /\ JsonldIdle /\ LoaderIdle
    /\ MiddlewareIdle /\ NamesIdle
    /\ OrchIdle /\ ResumeIdle /\ ServingIdle /\ SweepIdle
    /\ WeekStartIdle /\ WeeklyIdle
SessionSpec == SessionSpecInit /\ [][SessionNext]_vars

\* the three week starts of one date, computed in any order
WeekStartSpecInit ==
    WeekStartInit /\ BatchIdle /\ CanonIdle /\ DailyIdle /\ FetchIdle /\ JsonldIdle /\ LoaderIdle
    /\ MiddlewareIdle /\ NamesIdle /\ OrchIdle /\ ResumeIdle /\ ServingIdle /\ SweepIdle
    /\ WeeklyIdle
    /\ SessionIdle
WeekStartSpec == WeekStartSpecInit /\ [][WeekStartNext]_vars

\* one (entity, meal) pair from the Fetcher to the payload of the Loader
NamesSpecInit ==
    NamesInit /\ BatchIdle /\ CanonIdle /\ DailyIdle /\ FetchIdle /\ JsonldIdle /\ LoaderIdle
    /\ MiddlewareIdle /\ OrchIdle /\ ResumeIdle /\ ServingIdle /\ SweepIdle
    /\ WeeklyIdle
    /\ WeekStartIdle
    /\ SessionIdle
NamesSpec == NamesSpecInit /\ [][NamesNext]_vars

\* an aborted Loader run and the run for the same date that follows it
ResumeSpecInit ==
    ResumeInit /\ BatchIdle /\ CanonIdle /\ DailyIdle /\ FetchIdle /\ JsonldIdle /\ LoaderIdle
    /\ MiddlewareIdle /\ OrchIdle /\ ServingIdle /\ SweepIdle
    /\ WeeklyIdle
    /\ NamesIdle
    /\ WeekStartIdle
    /\ SessionIdle
ResumeSpec == ResumeSpecInit /\ [][ResumeNext]_vars

\* one request through the analytics middleware
MiddlewareSpecInit ==
    MiddlewareInit /\ BatchIdle /\ CanonIdle /\ DailyIdle /\ FetchIdle /\ JsonldIdle /\ LoaderIdle
    /\ OrchIdle /\ ServingIdle /\ SweepIdle
    /\ WeeklyIdle
    /\ ResumeIdle
    /\ NamesIdle
    /\ WeekStartIdle
    /\ SessionIdle
MiddlewareSpec == MiddlewareSpecInit /\ [][MiddlewareNext]_vars

\* two Loader instances whose runs may overlap
ConcSpecInit ==
    ConcInit /\ BatchIdle /\ CanonIdle /\ DailyIdle /\ FetchIdle
    /\ JsonldIdle /\ OrchIdle /\ ServingIdle /\ SweepIdle
    /\ WeeklyIdle
    /\ MiddlewareIdle
    /\ ResumeIdle
    /\ NamesIdle
    /\ WeekStartIdle
    /\ SessionIdle
ConcSpec == ConcSpecInit /\ [][ConcNext]_vars

\* the daily job, day after day
DailySpecInit ==
    DailyInit /\ BatchIdle /\ CanonIdle /\ FetchIdle /\ JsonldIdle /\ LoaderIdle
    /\ OrchIdle /\ ServingIdle /\ SweepIdle
    /\ WeeklyIdle
    /\ MiddlewareIdle
    /\ ResumeIdle
    /\ NamesIdle
    /\ WeekStartIdle
    /\ SessionIdle
DailySpec == DailySpecInit /\ [][DailyNext]_vars

\* the serving weights of the items of a payload, one after the other
ServingSpecInit ==
    ServingInit /\ BatchIdle /\ CanonIdle /\ FetchIdle /\ JsonldIdle /\ LoaderIdle
    /\ OrchIdle /\ SweepIdle /\ WeeklyIdle
    /\ DailyIdle
    /\ MiddlewareIdle
    /\ ResumeIdle
    /\ NamesIdle
    /\ WeekStartIdle
    /\ SessionIdle
ServingSpec == ServingSpecInit /\ [][ServingNext]_vars

\* the Canonicalizer run on one raw week, more than once
JsonldSpecInit ==
    JsonldInit /\ BatchIdle /\ CanonIdle /\ FetchIdle /\ LoaderIdle
    /\ OrchIdle /\ SweepIdle /\ WeeklyIdle
    /\ ServingIdle
    /\ DailyIdle
    /\ MiddlewareIdle
    /\ ResumeIdle
    /\ NamesIdle
    /\ WeekStartIdle
    /\ SessionIdle
JsonldSpec == JsonldSpecInit /\ [][JsonldNext]_vars

(***************************************************************************)
(*                  CLAIMS ABOUT THE ORCHESTRATOR                           *)
(***************************************************************************)
\* the positions of load_all_files and after it, up to the end of the try block
Running == opc \in InTry

\* C1: a run that resumes from the persisted LoadState of its date does not
\* invoke the load operation for any file that LoadState records as
\* successful.  (While the run is in its try block loading_state still is
\* the LoadState it resumed from.)
C1_ResumeSkipsSuccessful ==
    (resumed /\ Running) =>
        \A f \in Range(loading_state.successful_files) : invocations[f] = 0

\* a step that makes one subprocess.run call for the file in hand
AttemptStep == opc = "attempt" /\ invocations' # invocations

\* C4: the load operation is invoked at most 3 times for a file; the attempt
\* that succeeds is the last one and appends the file to successful_files; a
\* file is appended to failed_files only by the third failed attempt, and a
\* timeout is a failed attempt like any other.
C4_BoundedRetry ==
    [][ /\ \A f \in AllFiles : invocations'[f] <= 3
        /\ (AttemptStep /\ outcome' = "ok") =>
              /\ opc' = "pause"
              /\ successful_files' = Append(successful_files, files[i])
              /\ failed_files' = failed_files
        /\ (AttemptStep /\ outcome' # "ok") =>
              /\ successful_files' = successful_files
              /\ IF invocations'[files[i]] = 3
                 THEN /\ opc' = "pause"
                      /\ failed_files' = Append(failed_files, files[i])
                 ELSE /\ opc' = "backoff"
                      /\ failed_files' = failed_files
        /\ (opc = "pause" /\ opc' = "attempt") => i' = i + 1
      ]_vars

\* C4 witness: fail, fail, success -- the third attempt succeeded and the
\* file is recorded as successful
C4_Witness ==
    /\ opc = "pause"
    /\ ~resumed
    /\ outcome = "ok"
    /\ invocations[files[i]] = 3
    /\ successful_files[Len(successful_files)] = files[i]

\* C5: a file that fails all its attempts is recorded as failed and the loop
\* goes on: when the loop has ended every file found for the date has been
\* attempted, and the only error exit is the report of a run without files.
C5_FailureDoesNotAbort ==
    /\ (opc = "pause" /\ outcome # "ok") =>
          /\ Len(failed_files) > 0
          /\ failed_files[Len(failed_files)] = files[i]
    /\ opc \in {"report", "save_state", "completed"} =>
          /\ files = find_todays_files(date)
          /\ \A k \in 1..Len(files) : invocations[files[k]] >= 1
    /\ opc = "error" => (interrupted_at = "report" /\ total_files = 0)

\* C5 witness: the first of two files failed three times by an exception,
\* the second was loaded, and the run completed
C5_Witness ==
    /\ opc = "completed"
    /\ ~resumed
    /\ Len(files) = 2
    /\ failed_files = <<files[1]>>
    /\ successful_files = <<files[2]>>
    /\ invocations[files[1]] = 3

\* the files classified by this process when it left the try block
ClassifiedAtExit ==
    {files[k] : k \in 1..(IF interrupted_at \in {"attempt", "backoff"}
                          THEN i - 1 ELSE i)}
\* the file in flight when the process left the try block
InFlightAtExit ==
    IF interrupted_at \in {"attempt", "backoff"} THEN {files[i]} ELSE {}
Recorded(st) == Range(st.successful_files) \cup Range(st.failed_files)

\* C6: after an interruption (or an unexpected error) the LoadState has been
\* persisted with the lists of the process; every file the run classified is
\* in them, nothing else is when the run did not resume, and the file in
\* flight is in neither list.
C6_InterruptPersistsClassified ==
    opc \in {"interrupted", "error"} =>
        /\ loading_state = StateDict
        /\ ClassifiedAtExit \subseteq Recorded(loading_state)
        /\ ~resumed => Recorded(loading_state) \subseteq ClassifiedAtExit
        /\ InFlightAtExit \cap Recorded(loading_state) = {}

\* the entries the process itself appended to a list that started as the
\* list `before` of the LoadState it resumed from (empty in a fresh run)
AppendedTo(list, before) ==
    {list[k] : k \in (IF resumed THEN Len(before) ELSE 0) + 1 .. Len(list)}
\* the files this run classified as loaded / as failed; loading_state is the
\* LoadState resumed from until save_state overwrites it
RunSucceeded == AppendedTo(successful_files, loading_state.successful_files)
RunFailed == AppendedTo(failed_files, loading_state.failed_files)

\* C13: when every file of a run over at least one file has been classified,
\* the status is one of success / partial / failed, and it is success iff no
\* file of the run failed, partial iff some file succeeded and some file
\* failed, failed iff no file succeeded.
C13_StatusMatchesOutcome ==
    (opc \in {"report", "save_state"} /\ Len(files) >= 1) =>
        /\ status \in {"success", "partial", "failed"}
        /\ status = "success" <=> RunFailed = {}
        /\ status = "partial" <=> (RunSucceeded # {} /\ RunFailed # {})
        /\ status = "failed" <=> RunSucceeded = {}

\* the files of the run that failed all their attempts
PermanentlyFailed == {f \in Range(files) : failures[f] = 3}
\* s lists exactly the members of S, each once
ListsExactly(s, S) == Range(s) = S /\ Len(s) = Cardinality(S)

\* C14: a fresh run over n files that completes has persisted a LoadState
\* for its date whose failed_files are exactly the files that failed all
\* three attempts, whose successful_files are exactly the other files, and
\* whose total_files is n; when some but not all files failed (one of five,
\* say) the status is partial.
C14_FreshRunPersistsOutcome ==
    (opc = "completed" /\ ~resumed) =>
        /\ loading_state.exists
        /\ loading_state.date = date
        /\ ListsExactly(loading_state.failed_files, PermanentlyFailed)
        /\ ListsExactly(loading_state.successful_files,
                        Range(files) \ PermanentlyFailed)
        /\ loading_state.total_files = Len(files)
        /\ (PermanentlyFailed # {} /\ PermanentlyFailed # Range(files)) =>
              status = "partial"

\* C14 witness: five files, one of them failed three times, the other four
\* were loaded; the run completed with status partial and the failed file is
\* in the persisted LoadState
C14_Witness ==
    /\ opc = "completed"
    /\ ~resumed
    /\ Len(files) = 5
    /\ Cardinality(PermanentlyFailed) = 1
    /\ status = "partial"
    /\ Len(loading_state.successful_files) = 4
    /\ Range(loading_state.failed_files) = PermanentlyFailed

(***************************************************************************)
(*                     CLAIMS ABOUT THE LOADER                              *)
(***************************************************************************)
\* the sitetags that occur in the collection
TagsPresent == {k[1] : k \in BagToSet(points)}
\* the positions of main after its step that ensures collection and indexes
AfterEnsure == {"delete", "list", "loop", "flush", "done", "aborted", "no_files"}

\* C2 as stated: a completed run that follows a completed run for the same
\* date (same files) upserts no point.
C2_SecondRunAddsNothing ==
    \A p \in Procs :
        (lpc[p] = "done" /\ prior[p] # "none") => created[p] = 0

\* C2 amended: a completed run that follows a completed run for the same
\* date in which no embedding call failed upserts no point.
C2_SecondRunAddsNothingAfterCleanRun ==
    \A p \in Procs :
        (lpc[p] = "done" /\ prior[p] = "clean") => created[p] = 0

\* C2 witness: the second run for a date has completed without an upsert,
\* over points the first run created
C2_Witness ==
    /\ lpc[1] = "done"
    /\ prior[1] = "clean"
    /\ created[1] = 0
    /\ \E f \in Range(run_files[1]) :
          exists_today_for_doc(SiteTag(today[1]), file_doc_id(f))

\* C3: no two points of the collection have the same sitetag and doc_id.
C3_UniqueTagAndDocId ==
    \A k \in BagToSet(points) : CopiesIn(k, points) <= 1

\* C7 as stated: after a run that exits 0 no point is tagged menus_<yesterday>.
C7_YesterdayRetired ==
    \A p \in Procs :
        lpc[p] = "done" => SiteTag(yesterday[p]) \notin TagsPresent

\* C7 amended: after a run that exits 0 and whose delete did not fail (it
\* printed "deleted", not "warn: delete ... failed") no point is tagged
\* menus_<yesterday>.
C7_YesterdayRetiredUnlessDeleteFailed ==
    \A p \in Procs :
        (lpc[p] = "done" /\ log_delete[p] = "deleted") =>
            SiteTag(yesterday[p]) \notin TagsPresent

\* C7 witness: a completed run whose delete removed yesterday's points
C7_Witness ==
    /\ lpc[1] = "done"
    /\ log_delete[1] = "deleted"
    /\ retired[1] > 0
    /\ created[1] > 0

C9_DeleteFailureNotFatal ==
    \A p \in Procs :
        /\ lpc[p] = "done" =>
              /\ Range(run_files[p]) =
                    {f \in jsonld_root : MatchesDate(f, today[p])}
              /\ idx[p] = Len(run_files[p]) + 1
              /\ \A f \in Range(run_files[p]) :
                    \/ exists_today_for_doc(SiteTag(today[p]), file_doc_id(f))
                    \/ Content(f) # "ok"
                    \/ f \in embed_failed[p]
        /\ lpc[p] = "aborted" => idx[p] >= 1

\* C9 witness: the delete failed and the run has upserted today's points
C9_Witness ==
    /\ lpc[1] = "done"
    /\ log_delete[1] = "warn"
    /\ created[1] > 0

\* C10: after the first step of main the collection exists and doc_id,
\* sitetag and site have a keyword index.
C10_CollectionAndIndexesEnsured ==
    \A p \in Procs :
        lpc[p] \in AfterEnsure =>
            /\ coll_exists
            /\ {"doc_id", "sitetag", "site"} \subseteq indexes

\* the file a loop iteration of process p is about
CurrentFile(p) == run_files[p][idx[p]]
\* the files of the run of p that the loop can load: they parse, have text,
\* and their embedding call did not fail
Loadable(p) ==
    {k \in 1..Len(run_files[p]) :
        Content(run_files[p][k]) = "ok" /\ run_files[p][k] \notin embed_failed[p]}
\* a loop iteration whose existence check was answered, for a file that
\* cannot be parsed, has no text, or whose embedding call fails
BadFileStep(p) ==
    /\ lpc[p] = "loop"
    /\ log_loop'[p] # "count_error"
    /\ \/ Content(CurrentFile(p)) # "ok"
       \/ embed_failed'[p] # embed_failed[p]

\* C11: a file whose JSON cannot be parsed, whose text is empty, or whose
\* embedding call raises or returns an empty vector is skipped: the iteration
\* stages and upserts nothing and goes on with the next file (or the final
\* flush); a run that exits 0 has upserted at most one point per loadable
\* file, and every loadable file has its point for today.
C11_BadFileSkippedRunContinues ==
    /\ [][\A p \in Procs :
            BadFileStep(p) =>
                /\ points' = points
                /\ pts'[p] = pts[p]
                /\ created'[p] = created[p]
                /\ idx'[p] = idx[p] + 1
                /\ lpc'[p] = IF idx[p] < Len(run_files[p]) THEN "loop"
                                                           ELSE "flush"
         ]_vars
    /\ [](\A p \in Procs :
            lpc[p] = "done" =>
                /\ created[p] <= Cardinality(Loadable(p))
                /\ \A k \in Loadable(p) :
                      exists_today_for_doc(SiteTag(today[p]),
                                           file_doc_id(run_files[p][k])))

\* C11 witness: the first of two files was skipped (bad content or a failed
\* embedding call), the second was loaded, and the run has exited 0
C11_Witness ==
    /\ lpc[1] = "done"
    /\ Len(run_files[1]) = 2
    /\ \/ Content(run_files[1][1]) # "ok"
       \/ run_files[1][1] \in embed_failed[1]
    /\ ~exists_today_for_doc(SiteTag(today[1]), file_doc_id(run_files[1][1]))
    /\ created[1] = 1
    /\ exists_today_for_doc(SiteTag(today[1]), file_doc_id(run_files[1][2]))

(***************************************************************************)
(*                  CLAIMS ABOUT THE UPSERT BATCHES                         *)
(***************************************************************************)
\* C12: the staged buffer never holds more than 128 points and no upsert
\* call carries more than 128; every staged point is in the buffer or has
\* been upserted, never both, and when the run completes every staged point
\* has been upserted exactly once.
C12_BatchesBounded ==
    /\ b_pts <= 128
    /\ b_largest <= 128
    /\ b_pc = "loop" => b_pts < 128
    /\ b_pc \in {"loop", "flush"} => b_upserted + b_pts = b_staged
    /\ b_pc = "done" => b_upserted = b_staged

\* C12 witness: a completed run that upserted one full batch and a remainder
C12_Witness ==
    /\ b_pc = "done"
    /\ b_largest = 128
    /\ b_staged > 128
    /\ b_upserted = b_staged

(***************************************************************************)
(*                CLAIMS ABOUT THE CONFIGURATION CHECK                      *)
(***************************************************************************)
\* the positions of a Loader process that make no call to the vector or the
\* embedding service; env_missing is the exit with code 1
BeforeAnyCall == {"idle", "validate_env", "env_missing"}

\* C15: when QDRANT_URL or OPENAI_API_KEY is missing, the daily job and the
\* Loader exit with a non-zero code before any call: no process gets past
\* the check, and no step creates the collection or an index, deletes,
\* embeds or upserts.
C15_MissingEnvIsFatalAtStartup ==
    /\ [](required_vars \ env # {} =>
            \A p \in Procs : lpc[p] \in BeforeAnyCall)
    /\ [][required_vars \ env # {} =>
            /\ UNCHANGED <<coll_exists, indexes, points, created, retired,
                           embed_failed, pts>>
            /\ \A p \in Procs :
                  lpc[p] \in {"validate_env"} => lpc'[p] \in {"validate_env", "env_missing"}
         ]_vars

\* C15 witness: the Loader, started from the command line without
\* OPENAI_API_KEY, has exited in validate_env
C15_Witness ==
    /\ "OPENAI_API_KEY" \notin env
    /\ lpc[1] = "env_missing"
    /\ today[1] # 0

(***************************************************************************)
(*                      CLAIMS ABOUT THE FETCHER                            *)
(***************************************************************************)
\* the response of the pair was open: status 200, some line-item with a
\* populated food field, and no other entity named in it
OpenResponse(pr) ==
    /\ f_seen[pr].status = 200
    /\ f_seen[pr].food
    /\ f_seen[pr].school_slug \in {"", pr[1]}

\* C16: a fetch that has handled its response has written the raw file of
\* its (entity, meal) iff the status was success, some line-item of some day
\* had a populated food field and the response named no other entity.
C16_RawFileIffOpen ==
    \A pr \in Pairs :
        f_log[pr] \in {"closed_http", "closed_empty", "closed_fallback", "saved"} =>
            /\ RawFile(pr) \in f_written <=> OpenResponse(pr)
            /\ RawFile(pr) \in f_written => RawFile(pr) \in raw_folder

\* C16 witness: in one run a pair was closed by an empty menu, one by a
\* differing entity, and one was saved
C16_Witness ==
    /\ \E pr \in Pairs : f_log[pr] = "closed_empty" /\ f_seen[pr].status = 200
    /\ \E pr \in Pairs : f_log[pr] = "closed_fallback" /\ f_seen[pr].food
    /\ \E pr \in Pairs : f_log[pr] = "saved" /\ RawFile(pr) \in f_written

\* the files of the pairs whose own response was open
OpenFiles == {RawFile(pr) : pr \in {q \in Pairs : OpenResponse(q)}}

\* C17: with all fetches running concurrently, no exception leaves a fetch
\* and no fetch is cancelled; whatever the interleaving, a file is written
\* only for a pair whose own response is open, a fetch that has returned
\* wrote its file iff its own response was open, when main ends the files
\* written are exactly those of the open pairs, and main does end.
C17_FetchesIndependent ==
    /\ [](/\ f_main # "crashed"
          /\ \A pr \in Pairs : f_pc[pr] # "cancelled"
          /\ f_written \subseteq OpenFiles
          /\ \A pr \in Pairs :
                f_pc[pr] = "done" =>
                    (RawFile(pr) \in f_written <=> OpenResponse(pr))
          /\ f_main = "done" => f_written = OpenFiles)
    /\ <>(f_main = "done")

\* C17 witness: one request is still unanswered while a sibling has raised
\* and another sibling has saved its file
C17_Witness ==
    \E a, b, c \in Pairs :
        /\ f_pc[a] = "get"
        /\ f_log[b] = "error"
        /\ f_log[c] = "saved"
        /\ RawFile(c) \in f_written

(***************************************************************************)
(*                 CLAIMS ABOUT THE RETENTION SWEEPER                       *)
(***************************************************************************)
\* the Sunday-through-Saturday week that contains day d
WeekContaining(d) ==
    {x \in (d - 6)..(d + 6) :
        \E s \in (d - 6)..d : weekday(s) = 6 /\ s <= x /\ x <= s + 6}
\* the week immediately before the week that contains d
WeekBefore(d) == {x - 7 : x \in WeekContaining(d)}
\* the files present at the start whose name ends in _<date>.jsonld for a
\* date of the week before the week of the sweep
InWindow ==
    {f \in s_before :
        /\ f.date \in WeekBefore(s_today)
        /\ f.shape.sep = "_"
        /\ f.shape.ext = "jsonld"}

\* C18 as stated: when the sweep has ended, exactly the files of the window
\* are gone and every other file is in place.
C18_SweepDeletesExactlyLastWeek ==
    s_pc = "done" => store = s_before \ InWindow

\* C18 amended: when the sweep has ended, exactly the files of the window
\* whose unlink did not raise are gone, the count printed is their number,
\* and every other file is in place.
C18_SweepDeletesLastWeekUnlessUnlinkFails ==
    s_pc = "done" =>
        /\ store = s_before \ (InWindow \ s_failed)
        /\ s_failed \subseteq InWindow
        /\ deleted = Cardinality(InWindow \ s_failed)

\* C18 witness: a sweep has removed files of last week at depth 0 and at
\* depth 2, and files of the current week and of the week before last are
\* still there
C18_Witness ==
    /\ s_pc = "done"
    /\ \E f, g \in s_before \ store : f.shape.depth = 0 /\ g.shape.depth = 2
    /\ \E f \in store : f.date \in WeekContaining(s_today)
    /\ \E f \in store :
          /\ f.date \in {x - 7 : x \in WeekBefore(s_today)}
          /\ f.shape.sep = "_" /\ f.shape.ext = "jsonld"

\* the latest weekly job has ended and its Fetcher and Canonicalizer stages
\* exited with code 0
ReachedSweeper == w_pc = "idle" /\ Len(w_stages) >= 2

\* C19: when the weekly job has run in every calendar week so far, and this
\* week's run has ended after its first two stages succeeded, every
\* canonical document written for a day of an earlier calendar week has been
\* deleted: the dated documents in the store are documents of the current
\* week.
C19_WrittenDocumentsSwept ==
    (ReachedSweeper /\ w_ran /\ ~w_missed) =>
        \A f \in store : f.date # UnknownDate => f.date \in WeekContaining(now)

\* C20: in every document the Canonicalizer builds, while it is built and
\* when it is put in outputs, no item has the name of its section (both
\* trimmed, compared without regard to case) and no item has a serving-size
\* text that contains "customer".
C20_NoHeaderOrMarkerItems ==
    \A k \in DOMAIN c_items :
        /\ Lower(strip(c_items[k].name)) # Lower(strip(c_section))
        /\ ~Contains(Lower(c_items[k].servingSize), "customer")

\* a document was returned that kept an item, after an item named like the
\* section up to case and spaces and an item with the marker were left out
C20_Witness ==
    /\ c_pc = "appended"
    /\ {"folded_name", "customer"} \subseteq c_skips
    /\ c_items # <<>>

\* (entity, meal, section, date) of a document
SectionOf(d) == <<d.hall, d.meal, d.section, d.date>>

\* C21: when a run of the Canonicalizer has ended, every document of the raw
\* week whose (entity, meal, section, date) no other document of the week
\* shares is the text of a file: it was not overwritten by the document of
\* another section, date or (entity, meal) pair.
C21_NoDocumentOverwritten ==
    (j_pc = "idle" /\ j_runs >= 1) =>
        \A k \in DOMAIN j_raw :
            (\A m \in DOMAIN j_raw \ {k} : SectionOf(j_raw[m]) # SectionOf(j_raw[k]))
                => \E f \in j_store : f.text = <<j_raw[k]>>

\* C22: once the Canonicalizer has run a second time on the same raw week,
\* JSONLD_DIR holds the files the first run left, each with the same text:
\* no file was added and none changed; and while a later run is writing, the
\* set of file names is the one the first run left.
C22_SecondRunLeavesStoreAsFirst ==
    /\ (j_pc = "idle" /\ j_runs >= 2) => j_store = j_first
    /\ j_runs >= 1 => {f.name : f \in j_store} = {f.name : f \in j_first}

\* the second run has ended on a week of two documents with different file
\* names
C22_Witness ==
    /\ j_pc = "idle"
    /\ j_runs = 2
    /\ Cardinality(j_store) = 2
    /\ j_store = j_first

\* the unit is ounces: its text begins with oz, in any case
UnitIsOunces == StartsWithOz(Lower(sw_size.serving_size_unit))
\* w tenths of a gram is the weight of t tenths of an ounce, rounded to one
\* decimal
IsRoundedWeight(w, t) ==
    /\ 2 * (w * OzScale - t * OzFactor) <= OzScale
    /\ 2 * (t * OzFactor - w * OzScale) <= OzScale

\* C23: servingWeight is the explicit gram value when one is present;
\* otherwise, when the unit is ounces, the amount times 28.3495 rounded to one
\* decimal; when neither is available the field is omitted.
C23_ServingWeightAsStated ==
    sw_built =>
        IF sw_size.serving_size_grams # <<>>
        THEN sw_out = sw_size.serving_size_grams
        ELSE IF UnitIsOunces /\ sw_size.serving_size_amount # <<>>
        THEN /\ sw_out # <<>>
             /\ IsRoundedWeight(sw_out[1], sw_size.serving_size_amount[1])
        ELSE sw_out = <<>>

\* C23 (amended): servingWeight is the explicit gram value when one is
\* present and not zero; otherwise, when the unit is ounces and the amount is
\* a number, the amount times 28.3495 rounded to one decimal, unless that is
\* zero (2 oz give 56.7); in every other case the field is omitted.
C23_ServingWeightNonZero ==
    sw_built =>
        /\ IF Truthy(sw_size.serving_size_grams)
           THEN sw_out = sw_size.serving_size_grams
           ELSE IF UnitIsOunces /\ Truthy(sw_size.serving_size_amount)
           THEN /\ sw_out # <<>>
                /\ IsRoundedWeight(sw_out[1], sw_size.serving_size_amount[1])
           ELSE sw_out = <<>>
        /\ (~Truthy(sw_size.serving_size_grams) /\ UnitIsOunces
                /\ sw_size.serving_size_amount = <<20>>) => sw_out = <<567>>

\* an item of 2 oz without a gram value has the serving weight 56.7
C23_Witness ==
    /\ sw_built
    /\ sw_size.serving_size_grams = <<>>
    /\ sw_size.serving_size_unit = <<"OZ">>
    /\ sw_size.serving_size_amount = <<20>>
    /\ sw_out = <<567>>

\* C24: whenever the daily job has run the Loader, it has run the Fetcher
\* and then the Canonicalizer before it, and it has passed the day of the
\* job as today and the day before as yesterday.
C24_LoaderAfterFetcherAndCanonicalizer ==
    \A k \in DOMAIN d_cmds :
        d_cmds[k].script = "load_today_to_qdrant.py" =>
            /\ d_cmds[k].today = d_sitetags[1]
            /\ d_cmds[k].yesterday = d_cmds[k].today - 1
            /\ \E a, b \in 1..(k - 1) :
                /\ a < b
                /\ d_cmds[a].script = "fetch_menu.py"
                /\ d_cmds[b].script = "nutrislice_to_jsonld.py"

\* the stages of the weekly job in their order
WeeklyStages == <<"fetch", "canon", "cleanup">>
\* the stages that have exited with code 0 are the first ones, in order
StagesInOrder ==
    /\ Len(w_stages) <= Len(WeeklyStages)
    /\ w_stages = SubSeq(WeeklyStages, 1, Len(w_stages))
\* a job that ended after a stage failed ran no later stage and exited with
\* a non-zero code; a job whose three stages succeeded exited with code 0
FailureStopsJob ==
    (w_pc = "idle" /\ w_stages # <<>>) =>
        (w_exit = 0 <=> w_stages = WeeklyStages)

\* C25: the weekly job runs the Fetcher, then the Canonicalizer, then the
\* Sweeper, each only after the one before it exited with code 0; a stage
\* that exits with another code ends the job with a non-zero code and no
\* later stage; and a job whose Fetcher and Canonicalizer succeeded has run
\* the Sweeper.
C25_WeeklyRunsThreeStagesInOrder ==
    /\ StagesInOrder
    /\ FailureStopsJob
    /\ ReachedSweeper => w_stages = WeeklyStages

\* the state of the load run, read off the position of the process
RunState ==
    CASE opc \in {"load_state", "prompt"} -> "NotStarted"
      [] opc \in {"load_all_files", "attempt", "backoff", "pause", "report",
                  "save_state"} -> "Running"
      [] opc = "completed" -> "Completed"
      [] opc \in {"interrupted", "error"} -> "Interrupted"
      [] opc = "killed" -> "Killed"
RunStateNext ==
    CASE opc' \in {"load_state", "prompt"} -> "NotStarted"
      [] opc' \in {"load_all_files", "attempt", "backoff", "pause", "report",
                   "save_state"} -> "Running"
      [] opc' = "completed" -> "Completed"
      [] opc' \in {"interrupted", "error"} -> "Interrupted"
      [] opc' = "killed" -> "Killed"
\* the moves of the state machine of a load run
RunMoves ==
    {<<"NotStarted", "Running">>, <<"Running", "Completed">>,
     <<"Running", "Interrupted">>}
\* a step of one load run that keeps to the moves in Moves: files are
\* attempted only in Running, Completed is entered only when every file has
\* been attempted, and an ended run does not change
RunKeepsTo(Moves) ==
    runs' = runs =>
        /\ RunStateNext # RunState => <<RunState, RunStateNext>> \in Moves
        /\ invocations' # invocations => RunState = "Running"
        /\ (RunStateNext = "Completed" /\ RunState # "Completed") =>
              \A k \in DOMAIN files : invocations[files[k]] >= 1
        /\ RunState \in {"Completed", "Interrupted", "Killed"} =>
              UNCHANGED orchVars

Stages(p) == Len(pts'[p]) > Len(pts[p])
\* the key (partition tag, doc_id) gets its second point in this step
Doubled(k) == CopiesIn(k, points') >= 2 /\ CopiesIn(k, points) < 2

\* C27: no lock orders the instances: each stages a point for a file only
\* when the collection holds no point of its (partition tag, doc_id), and a
\* second point of one (partition tag, doc_id) comes into the collection
\* only by the upsert of a point an instance had staged before the first
\* point of that key was upserted by the other instance.
C27_DuplicateOnlyByOverlap ==
    [][ /\ \A p \in Procs :
              Stages(p) =>
                  CopiesIn(<<SiteTag(today[p]), pts'[p][Len(pts'[p])]>>, points) = 0
        /\ \A k \in DOMAIN points' :
              Doubled(k) =>
                  /\ CopiesIn(k, points) = 1
                  /\ \E p \in Procs :
                        /\ lpc[p] \in {"loop", "flush"}
                        /\ k[1] = SiteTag(today[p])
                        /\ k[2] \in Range(pts[p])
      ]_vars

\* two instances have run for the same date over the same file, each has
\* upserted a point, and the collection holds two points of one (partition
\* tag, doc_id)
C27_Witness ==
    /\ lpc = [p \in Procs |-> "done"]
    /\ today[1] = today[2]
    /\ \A p \in Procs : created[p] = 1
    /\ \E k \in DOMAIN points : CopiesIn(k, points) = 2

\* C28: a Loader run for (today, yesterday), today # yesterday, removes
\* points only in its delete step and only points tagged menus_<yesterday>:
\* no step lowers the number of points of a (partition tag, doc_id) whose
\* tag is menus_<today> or any other tag.
C28_DeletesOnlyYesterday ==
    [][ \A k \in DOMAIN points :
            CopiesIn(k, points') < CopiesIn(k, points) =>
                /\ lpc[1] = "delete"
                /\ today[1] # yesterday[1]
                /\ k[1] = SiteTag(yesterday[1])
                /\ k[1] # SiteTag(today[1])
      ]_vars

\* the delete step of a run has removed yesterday's points while points
\* tagged menus_<today>, upserted by an earlier run, are still there
C28_Witness ==
    /\ lpc[1] = "list"
    /\ log_delete[1] = "deleted"
    /\ retired[1] > 0
    /\ SiteTag(today[1]) \in TagsPresent

\* loading_state.json holds a LoadState of another date than the run's
StaleLoadState == loading_state.exists /\ loading_state.date # date

\* C29: a persisted LoadState of another date is never applied: load_state
\* finds nothing to resume (no prompt follows) and leaves successful_files,
\* failed_files and total_files as they were, the run's lists hold files of
\* its own date only, and whenever the run writes loading_state.json the
\* record becomes the LoadState of this run.
C29_StaleLoadStateNotApplied ==
    [][ /\ (opc = "load_state" /\ StaleLoadState
             /\ opc' \notin {"load_state", "killed"}) =>
                /\ opc' = "load_all_files"
                /\ UNCHANGED <<successful_files, failed_files, total_files>>
        /\ \A f \in Range(successful_files') \cup Range(failed_files') :
                f[1] = date'
        /\ loading_state' # loading_state =>
                loading_state' =
                    [exists |-> TRUE, date |-> date,
                     successful_files |-> successful_files,
                     failed_files |-> failed_files,
                     total_files |-> total_files]
      ]_vars

\* load_state has run over a record of another date that lists loaded
\* files: the run goes on to load_all_files with nothing taken over
C29_Witness ==
    /\ opc = "load_all_files"
    /\ StaleLoadState
    /\ Len(loading_state.successful_files) > 0
    /\ successful_files = <<>>
    /\ failed_files = <<>>
    /\ total_files = 0

\* the files the sweep found for a day of its week
Matched ==
    {f \in s_before :
        /\ \E k \in 1..Len(week) : f.date = week[k]
        /\ f.shape.sep = "_"
        /\ f.shape.ext = "jsonld"}

\* C30: when a sweep in which deleting a file failed has ended, every other
\* matching file (one whose unlink does not raise) is gone, the files that
\* could not be deleted are in place, and the count printed at the end is
\* the number of files that were deleted.
C30_SweepGoesOnAfterFailedDelete ==
    (s_pc = "done" /\ s_failed # {}) =>
        /\ \A f \in Matched : ~f.shape.locked => f \notin store
        /\ s_failed \subseteq store
        /\ deleted = Cardinality(s_before \ store)

\* a sweep has ended in which a file of one day could not be deleted and a
\* file of a later day of the week was deleted after it
C30_Witness ==
    /\ s_pc = "done"
    /\ deleted > 0
    /\ \E f \in s_failed, g \in s_before \ store : g.date > f.date

\* C31: when the downstream handler raises an exception, analytics_middleware
\* ends by passing the exception on to its caller, not by returning a
\* response.
C31_HandlerExceptionPropagates ==
    (mw_pc \in {"returned", "propagated"} /\ mw_handler # "response") =>
        /\ mw_pc = "propagated"
        /\ mw_pending = ExceptionOf(mw_handler)

\* C32: when a complete Loader run has followed an aborted run for the same
\* date, every loadable canonical file of the date has exactly one point in
\* the partition of the date.
C32_OnePointPerFileAfterAbortedRun ==
    (r_run = 2 /\ r_pc = "done") =>
        \A k \in 1..r_files : r_points[resume_doc_id(k)] = 1

\* the same for a date none of whose files share a stem
C32_OnePointPerFileWithoutTwins ==
    (r_run = 2 /\ r_pc = "done" /\ ~r_twin) =>
        \A k \in 1..r_files : r_points[resume_doc_id(k)] = 1

\* no entry of the list s occurs in it twice
NoRepeats(s) == \A a, b \in 1..Len(s) : a # b => s[a] # s[b]
\* the invariant of the LoadState lists of the running process
ListsConsistent ==
    /\ Range(successful_files) \cap Range(failed_files) = {}
    /\ NoRepeats(successful_files)
    /\ NoRepeats(failed_files)
    /\ Len(successful_files) + Len(failed_files) <= total_files

\* C33: in every state of a run, fresh or resumed, no file is in both
\* successful_files and failed_files, no file occurs twice in either list,
\* and the two lists together are no longer than total_files.
C33_ListsDisjointAndBounded == ListsConsistent

\* the same for the runs that did not resume from a persisted LoadState
\* (at the prompt, and when killed there, the lists are those load_state read)
C33_ListsConsistentInFreshRuns ==
    (~resumed /\ opc \notin {"prompt", "killed"}) => ListsConsistent

\* the run has ended otherwise than by a KeyboardInterrupt
EndedUninterrupted == opc \in {"completed", "error"}

PriorStatesCoverSecondRun ==
    (runs = 2 /\ opc = "load_state") => loading_state \in PriorStates(data_dir)

\* C35 as stated: a run that finds no file for today has exited non-zero
\* with nothing upserted and with yesterday's partition already deleted.
C35_NoFilesExitAfterRetire ==
    \A p \in Procs :
        lpc[p] = "no_files" =>
            /\ last_done = 0
            /\ created[p] = 0
            /\ pts[p] = <<>>
            /\ SiteTag(yesterday[p]) \notin TagsPresent

\* C35 amended: a run that finds no file for today has exited non-zero with
\* nothing upserted, after its delete of yesterday's partition was attempted;
\* the partition is gone unless that delete call failed (it printed
\* "warn: delete ... failed"), in which case it is as it was.
C35_NoFilesExitAfterRetireAttempt ==
    \A p \in Procs :
        lpc[p] = "no_files" =>
            /\ last_done = 0
            /\ created[p] = 0
            /\ pts[p] = <<>>
            /\ log_delete[p] \in {"deleted", "warn"}
            /\ log_delete[p] = "deleted" =>
                  SiteTag(yesterday[p]) \notin TagsPresent

\* C35 witness: a run for a day without files has exited after it deleted
\* the points of the day before
C35_Witness ==
    /\ lpc[1] = "no_files"
    /\ log_delete[1] = "deleted"
    /\ retired[1] > 0
    /\ created[1] = 0
    /\ points = EmptyBag

\* C36: a run that finds no file for its date never gets to save_state or
\* to its normal end; when it has ended without a KeyboardInterrupt it has
\* ended on the error path out of the report step, with a LoadState of its
\* date and total_files = 0 on disk and exit code 1.
C36_NoFilesRunEndsInError ==
    (data_dir[date] = 0) =>
        /\ opc \notin {"save_state", "completed"}
        /\ opc = "report" => total_files = 0
        /\ opc = "error" =>
              /\ interrupted_at = "report"
              /\ loading_state.exists
              /\ loading_state.date = date
              /\ loading_state.total_files = 0
              /\ exit_code = 1

\* a run over a date without files has ended on the error path
C36_Witness ==
    /\ data_dir[date] = 0
    /\ opc = "error"
    /\ files = <<>>
    /\ loading_state.exists
    /\ loading_state.total_files = 0
    /\ exit_code = 1

\* C37: a failed attempt that is not the third for its file is followed by
\* a wait of 10 seconds after a timeout and of 5 seconds after a non-zero
\* result or another error, and the next attempt for the file starts only
\* when that wait has ended; the third failed attempt is followed by no
\* wait, and the file is appended to failed_files.
C37_BackoffBetweenAttempts ==
    [][ /\ (AttemptStep /\ outcome' # "ok" /\ invocations'[files[i]] < 3) =>
              /\ opc' = "backoff"
              /\ delay' = IF outcome' = "timeout" THEN 10 ELSE 5
              /\ failed_files' = failed_files
        /\ (AttemptStep /\ outcome' # "ok" /\ invocations'[files[i]] >= 3) =>
              /\ opc' = "pause"
              /\ delay' = 0
              /\ failed_files' = Append(failed_files, files[i])
        /\ (opc' = "attempt" /\ opc # "attempt" /\ i' = i) =>
              /\ opc = "backoff"
              /\ delay \in {5, 10}
              /\ delay' = 0
              /\ attempt' = attempt + 1
        /\ AttemptStep => opc' # "attempt"
      ]_vars

\* the second attempt for a file has timed out and the run is in the
\* 10-second wait before the third
C37_Witness ==
    /\ opc = "backoff"
    /\ outcome = "timeout"
    /\ delay = 10
    /\ invocations[files[i]] = 2
    /\ failures[files[i]] = 2

\* the Canonicalizer and the Loader have got entity and meal back
Recovered ==
    /\ n_pc \in {"load", "loaded"} =>
          n_hall = [hall |-> n_slug, meal |-> n_meal]
    /\ n_pc = "loaded" => n_payload = [site |-> n_slug, meal |-> n_meal]

\* C38: for every configured slug and meal type, the Canonicalizer takes
\* exactly that slug and meal type from the name of the raw file the Fetcher
\* wrote, and the Loader takes the same two from the name of the canonical
\* file (payload fields site and meal).
C38_EntityAndMealRecovered == Recovered

\* the same for slugs and meal types without an underscore
C38_RecoveredWithoutUnderscore ==
    (\A k \in DOMAIN n_slug : n_slug[k] # "_") /\
    (\A k \in DOMAIN n_meal : n_meal[k] # "_") => Recovered

\* w is the Sunday on or before day d (the days 0, 7, 14, ... are Sundays)
SundayOnOrBefore(w, d) == w % 7 = 0 /\ w <= d /\ d <= w + 6

\* C39: for every date d the week starts the Fetcher, the Canonicalizer and
\* the Retention Sweeper compute are one and the same date, a Sunday with
\* week_start <= d <= week_start + 6; the seven days of the Sweeper's
\* window are the week before it, so the last of them is before d.
C39_WeekStartsAgree ==
    /\ \A w \in {ws_fetcher, ws_canon, ws_sweeper} \ {NotComputed} :
          SundayOnOrBefore(w[1], ws_d)
    /\ Cardinality({ws_fetcher, ws_canon, ws_sweeper} \ {NotComputed}) <= 1
    /\ ws_window # <<>> =>
          /\ Len(ws_window) = 7
          /\ ws_window[1] = ws_sweeper[1] - 7
          /\ ws_window[7] = ws_sweeper[1] - 1
          /\ ws_window[7] < ws_d

\* the three programs have computed the week start of a Sunday, which is
\* that day itself
C39_Witness ==
    /\ ws_d % 7 = 0
    /\ ws_fetcher = <<ws_d>>
    /\ ws_canon = <<ws_d>>
    /\ ws_sweeper = <<ws_d>>
    /\ ws_window[7] = ws_d - 1

\* the last request came within SESSION_TTL of the one before and carried
\* the cookies that one's response set
FollowsWithinTTL ==
    /\ se_n >= 2
    /\ se_carried = "previous"
    /\ se_gap <= SESSION_TTL

\* C40: a request that carries the cookies of the previous response and
\* arrives within SESSION_TTL of it gets the session id the previous
\* request got; a session id changes only when the session cookie is
\* missing or malformed or the gap is over SESSION_TTL.
C40_SameSessionWithinTTL == FollowsWithinTTL => se_sid = se_prev_sid

\* what get_or_set_ids does return to such a request: the whole ab_sid
\* cookie, which is the previous session id followed by the time of the
\* previous request, so the session id grows by one part on every request
C40_SessionIdGrowsWithinTTL ==
    FollowsWithinTTL => se_sid = Append(se_prev_sid, Num(se_now - se_gap))

====
